---- MODULE Spec2Model ----
(***************************************************************************)
(* A model of rust-static-error-analyzer: the call-graph builder           *)
(* (src/src/analysis/create_graph.rs), the graph types (src/src/graph.rs), *)
(* the entry-point handling of analyze (src/src/analysis.rs and            *)
(* src/src/analysis/mod.rs), the return-type classifier                    *)
(* (src/src/analysis/types.rs) and the chain extractor                     *)
(* (src/src/analysis/calls_to_chains.rs).                                  *)
(*                                                                         *)
(* Three specifications share the module:                                  *)
(*   Spec        analyze + create_call_graph_from_root on a HIR program    *)
(*   SpecChains  to_chains on an annotated call graph                      *)
(*   SpecTypes   get_error_or_type on a return type                        *)
(***************************************************************************)
EXTENDS Integers, Sequences, FiniteSets, TLC

VARIABLES
    \* --- Spec: the analysed program and the builder's state
    prog,        \* the HIR of the crate: entry function and function bodies
    graph,       \* the Graph under construction: [nodes, edges]
    stack,       \* the active add_calls_from_block invocations (innermost last)
    traversed,   \* per local definition: how often add_calls_from_function started on it
    result,      \* where analyze is: "start", "building", "Some", "None", "panic"
    \* --- SpecChains: the input call graph and to_chains' outputs
    cg,          \* the CallGraph given to to_chains: [nodes, edges]
    open,        \* the nodes whose bodies the builder of cg is traversing
    chain,       \* to_chains' outputs and statistics (a record), or NotRun
    \* --- SpecTypes: the classified return type
    ret_ty,      \* the callee's return type as declared
    classified,  \* get_error_or_type's result, or NotRun
    \* --- SpecRuns: a second run of the builder on the same program
    twin,        \* its graph, stack and result (a record), or NotRun
    \* --- SpecMain: the command line and what the tool does with it
    cli,         \* main's position, arguments, flag and outputs (a record)
    \* --- SpecFormat: the other chain extractor, format_graph.rs
    split,       \* split_chains' outcome (a record), or NotRun
    \* --- SpecAnalyze: the passes of analyze over the built graph
    pass,        \* the pass at work, its index and what it started from (a record)
    \* --- SpecArgs: the rustc command line taken from cargo's output
    cmd          \* the command, and split_args' result once it has run (a record)

vars == <<prog, graph, stack, traversed, result, cg, open, chain, ret_ty, classified, twin, cli, split, pass, cmd>>
buildVars == <<prog, graph, stack, traversed, result>>
chainVars == <<cg, open, chain>>
typeVars == <<ret_ty, classified>>

NotRun == [run |-> FALSE]

(***************************************************************************)
(* Bounds of the model.                                                    *)
(***************************************************************************)
\* the number of top-level items (statements and final expressions) over all free bodies
MaxSites == 3
\* a cap on the node list, never reached by the code as written (4 definitions)
NodeCap == 6

(***************************************************************************)
(* Sequences.                                                              *)
(***************************************************************************)
RECURSIVE Flatten(_)
Flatten(ss) == IF ss = <<>> THEN <<>> ELSE Head(ss) \o Flatten(Tail(ss))

Range(s) == {s[i] : i \in 1..Len(s)}

(***************************************************************************)
(* The definitions of the analysed crate (DefId).  "main" and "fn1" are    *)
(* local fn items, "clos" a closure of the local crate, "ext" a function   *)
(* of another crate.                                                       *)
(***************************************************************************)
FnItems == {"main", "fn1"}
LocalDefs == {"main", "fn1", "clos"}
AllDefs == LocalDefs \cup {"ext"}

\* DefId::as_local
as_local(def_id) == def_id \in LocalDefs

\* TyCtxt::local_def_id_to_hir_id: the HirId of a local definition
local_def_id_to_hir_id(def_id) == <<"hir", def_id>>

\* the HirId of the body expression of a local fn item or closure
BodyId(def_id) == <<"body", def_id>>

(***************************************************************************)
(* HIR expressions, statements and blocks (rustc_hir::ExprKind, StmtKind,  *)
(* Block) as records.                                                      *)
(***************************************************************************)
NoExpr == [kind |-> "None"]
NoDef == "no-def"

\* QPath::Resolved whose path.res is Res::Def(def_kind, def_id)
ResolvedDef(def_kind, def_id) ==
    [q |-> "Resolved", is_def |-> TRUE, def_kind |-> def_kind, def_id |-> def_id]
\* QPath::Resolved whose path.res is not a definition (Res::Local: a variable)
ResolvedLocal == [q |-> "Resolved", is_def |-> FALSE]
\* QPath::TypeRelative(ty, segment): ty_path is the type's own QPath, or NoExpr
TypeRelative(ty_path) == [q |-> "TypeRelative", ty_path |-> ty_path]
LangItemPath == [q |-> "LangItem"]

PathE(id, qpath) == [kind |-> "Path", hir_id |-> id, qpath |-> qpath]
\* mir: the callee get_call_def_id finds in the optimized MIR, or NoDef
CallE(id, mir, func, args) ==
    [kind |-> "Call", hir_id |-> id, mir |-> mir, func |-> func, args |-> args]
\* tdd: typeck's type_dependent_def_id of the method call, or NoDef
MethodCallE(id, mir, tdd, recv, args) ==
    [kind |-> "MethodCall", hir_id |-> id, mir |-> mir, tdd |-> tdd,
     recv |-> recv, args |-> args]
\* arms: a sequence of [body, guard, pat]; src: "TryDesugar" or "Normal"
MatchE(exp, arms, src) == [kind |-> "Match", exp |-> exp, arms |-> arms, src |-> src]
\* a closure expression: its own definition and the HirId of its body
ClosureE(id, def_id) ==
    [kind |-> "Closure", hir_id |-> id, def_id |-> def_id, body_id |-> BodyId(def_id)]
\* Block, Loop and ConstBlock hold a block
BlockE(kind, block) == [kind |-> kind, block |-> block]
\* every other kind holds its sub-expressions in evaluation order
SubsE(kind, subs) == [kind |-> kind, subs |-> subs]
LitE == SubsE("Lit", <<>>)

SemiS(exp) == [skind |-> "Semi", exp |-> exp]
ExprS(exp) == [skind |-> "Expr", exp |-> exp]
LetS(init) == [skind |-> "Let", exp |-> init]
ItemS == [skind |-> "Item", exp |-> NoExpr]

BlockOf(stmts, expr) == [stmts |-> stmts, expr |-> expr]

(***************************************************************************)
(* graph.rs: NodeKind, Edge, Graph.                                        *)
(***************************************************************************)
\* NodeKind::local_fn
local_fn(def_id, hir_id) == [tag |-> "LocalFn", def_id |-> def_id, hir_id |-> hir_id]
\* NodeKind::non_local_fn
non_local_fn(def_id) == [tag |-> "NonLocalFn", def_id |-> def_id]

\* the mutation of EdgeNew that C13 is tested against
EdgeNew_Reversed(from, to, call_id, propagates) ==
    [from |-> to, to |-> from, call_id |-> call_id, ty |-> "None",
     propagates |-> propagates, is_error |-> FALSE]

\* Edge::new: the type label is absent and is_error false until the annotation pass
EdgeNew(from, to, call_id, propagates) ==
    [from |-> from, to |-> to, call_id |-> call_id, ty |-> "None",
     propagates |-> propagates, is_error |-> FALSE]

\* the mutation of edge_label that C17 is tested against
edge_label_Empty(e) == IF e.ty = "None" THEN "" ELSE e.ty

\* Labeller::edge_label: e.ty.unwrap_or("unknown")
edge_label(e) == IF e.ty = "None" THEN "unknown" ELSE e.ty

\* Graph::new
GraphNew == [nodes |-> <<>>, edges |-> <<>>]

\* Node::new: the id is the position in the node list; panics starts false
NodeNew(node_id, label, node_kind) ==
    [id |-> node_id, label |-> label, kind |-> node_kind, panics |-> FALSE]

\* the mutation of add_node that C12 is tested against
add_node_InFront(g, label, node_kind) ==
    [g EXCEPT !.nodes = <<NodeNew(Len(g.nodes), label, node_kind)>> \o @]

\* Graph::add_node pushes the node; the id it returns is the old length
add_node(g, label, node_kind) ==
    [g EXCEPT !.nodes = Append(@, NodeNew(Len(g.nodes), label, node_kind))]

\* the mutation of add_edge that C11 is tested against
add_edge_Distinct(g, edge) ==
    IF \E i \in 1..Len(g.edges) : g.edges[i].from = edge.from /\ g.edges[i].to = edge.to
    THEN g
    ELSE [g EXCEPT !.edges = Append(@, edge)]

\* Graph::add_edge
add_edge(g, edge) == [g EXCEPT !.edges = Append(@, edge)]

NoNode == [found |-> FALSE]

\* the mutation of find_local_fn_node that C2 is tested against
find_local_fn_node_Blind(g, id) == NoNode

\* Graph::find_local_fn_node: the first LocalFn node with this HirId
find_local_fn_node(g, id) ==
    LET hits == {i \in 1..Len(g.nodes) :
                    g.nodes[i].kind.tag = "LocalFn" /\ g.nodes[i].kind.hir_id = id}
    IN IF hits = {} THEN NoNode
       ELSE [found |-> TRUE,
             node |-> g.nodes[CHOOSE i \in hits : \A j \in hits : i <= j]]

\* the mutation of find_non_local_fn_node that C1 is tested against
find_non_local_fn_node_Blind(g, id) == NoNode

\* Graph::find_non_local_fn_node: the first NonLocalFn node with this DefId
find_non_local_fn_node(g, id) ==
    LET hits == {i \in 1..Len(g.nodes) :
                    g.nodes[i].kind.tag = "NonLocalFn" /\ g.nodes[i].kind.def_id = id}
    IN IF hits = {} THEN NoNode
       ELSE [found |-> TRUE,
             node |-> g.nodes[CHOOSE i \in hits : \A j \in hits : i <= j]]

\* TyCtxt::def_path_str: the label of a node
def_path_str(def_id) == def_id

(***************************************************************************)
(* create_graph.rs: the Call Resolver.                                     *)
(***************************************************************************)
NoKind == [tag |-> "None"]

\* get_node_kind_from_def_id
get_node_kind_from_def_id(def_id) ==
    IF as_local(def_id)
    THEN local_fn(def_id, local_def_id_to_hir_id(def_id))
    ELSE non_local_fn(def_id)

\* the matches!(kind, Fn | Ctor | AssocFn | Closure) of get_node_kind_from_path
AddEdgeKinds == {"Fn", "Ctor", "AssocFn", "Closure"}

\* get_node_kind_from_path: [some, kind, add_edge]
RECURSIVE get_node_kind_from_path(_)
get_node_kind_from_path(qpath) ==
    CASE qpath.q = "Resolved" ->
           IF qpath.is_def
           THEN [some |-> TRUE, kind |-> get_node_kind_from_def_id(qpath.def_id),
                 add_edge |-> qpath.def_kind \in AddEdgeKinds]
           ELSE [some |-> FALSE]
      [] qpath.q = "TypeRelative" ->
           IF qpath.ty_path # NoExpr
           THEN get_node_kind_from_path(qpath.ty_path)
           ELSE [some |-> FALSE]
      [] OTHER -> [some |-> FALSE]

\* one element of the walker's result: (NodeKind, HirId, add_edge, propagates)
CallOf(node_kind, id, adds, propagates) ==
    [kind |-> node_kind, call_id |-> id, add_edge |-> adds,
     propagates |-> propagates]

\* the Call arm's own entry: the MIR callee first, then the callee path
ResolveCall(expr) ==
    IF expr.mir # NoDef
    THEN <<CallOf(get_node_kind_from_def_id(expr.mir), expr.hir_id, TRUE, FALSE)>>
    ELSE IF expr.func.kind = "Path"
         THEN LET r == get_node_kind_from_path(expr.func.qpath)
              IN IF r.some THEN <<CallOf(r.kind, expr.hir_id, TRUE, FALSE)>>
                 ELSE <<>>
         ELSE <<>>

\* the MethodCall arm's own entry: the MIR callee, then type_dependent_def_id
ResolveMethodCall(expr) ==
    IF expr.mir # NoDef
    THEN <<CallOf(get_node_kind_from_def_id(expr.mir), expr.hir_id, TRUE, FALSE)>>
    ELSE IF expr.tdd # NoDef
         THEN IF as_local(expr.tdd)
              THEN <<CallOf(local_fn(expr.tdd, local_def_id_to_hir_id(expr.tdd)),
                            expr.hir_id, TRUE, FALSE)>>
              ELSE <<CallOf(non_local_fn(expr.tdd), expr.hir_id, TRUE, FALSE)>>
         ELSE <<>>

\* the loops that push every found call again with propagates = true
SetPropagates(calls) ==
    [i \in 1..Len(calls) |-> [calls[i] EXCEPT !.propagates = TRUE]]

\* the mutation of TryDesugarCalls that C5 is tested against
TryDesugarCalls_Unflagged(calls) == calls

\* the Match arm with MatchSource::TryDesugar: the scrutinee's calls, then return
TryDesugarCalls(calls) == SetPropagates(calls)

\* the Ret arm: the returned expression's calls
RetCalls(calls) == SetPropagates(calls)

\* the final expression of a function's own block (is_fn)
FinalExprCalls(calls, is_fn) == IF is_fn THEN SetPropagates(calls) ELSE calls

LeafKinds == {"Lit", "Continue", "InlineAsm", "OffsetOf", "Err"}
BlockKinds == {"Block", "Loop", "ConstBlock"}
\* the arms that extend the result with each sub-expression's calls, in order
SubsKinds == {"Array", "Tup", "Binary", "Unary", "Cast", "Type", "DropTemps",
              "Become", "Let", "If", "Assign", "AssignOp", "Field", "Index",
              "AddrOf", "Break", "Struct", "Repeat", "Yield"}
LeafPats == {"Wild", "Never", "Path", "Err"}
ExprPats == {"Lit", "Range"}

RECURSIVE get_function_calls_in_expression(_)
RECURSIVE get_function_calls_in_block(_, _)
RECURSIVE get_function_calls_in_pattern(_)
RECURSIVE CallsOfExprs(_)
RECURSIVE CallsOfPats(_)
RECURSIVE CallsOfArms(_)
RECURSIVE CallsOfStmts(_)

\* res.extend(get_function_calls_in_expression(..)) over a list of expressions
CallsOfExprs(exprs) ==
    IF exprs = <<>> THEN <<>>
    ELSE get_function_calls_in_expression(Head(exprs)) \o CallsOfExprs(Tail(exprs))

CallsOfPats(pats) ==
    IF pats = <<>> THEN <<>>
    ELSE get_function_calls_in_pattern(Head(pats)) \o CallsOfPats(Tail(pats))

\* get_function_calls_in_pattern: a pattern is [pkind, subs, exprs]
get_function_calls_in_pattern(pat) ==
    CASE pat.pkind \in LeafPats -> <<>>
      [] pat.pkind \in ExprPats -> CallsOfExprs(pat.exprs)
      [] OTHER -> CallsOfPats(pat.subs)

\* the arms of a match: body, then guard, then pattern
CallsOfArms(arms) ==
    IF arms = <<>> THEN <<>>
    ELSE LET arm == Head(arms)
         IN get_function_calls_in_expression(arm.body)
            \o (IF arm.guard # NoExpr
                THEN get_function_calls_in_expression(arm.guard) ELSE <<>>)
            \o get_function_calls_in_pattern(arm.pat)
            \o CallsOfArms(Tail(arms))

\* get_function_calls_in_expression
get_function_calls_in_expression(expr) ==
    CASE expr.kind = "Call" ->
           ResolveCall(expr) \o CallsOfExprs(expr.args)
      [] expr.kind = "MethodCall" ->
           ResolveMethodCall(expr)
           \o get_function_calls_in_expression(expr.recv)
           \o CallsOfExprs(expr.args)
      [] expr.kind = "Match" ->
           IF expr.src = "TryDesugar"
           THEN TryDesugarCalls(get_function_calls_in_expression(expr.exp))
           ELSE get_function_calls_in_expression(expr.exp) \o CallsOfArms(expr.arms)
      [] expr.kind = "Closure" ->
           <<CallOf(local_fn(expr.def_id, local_def_id_to_hir_id(expr.def_id)),
                    expr.hir_id, FALSE, FALSE)>>
      [] expr.kind = "ConstBlock" -> get_function_calls_in_block(expr.block, FALSE)
      [] expr.kind = "Loop" -> get_function_calls_in_block(expr.block, FALSE)
      [] expr.kind = "Block" -> get_function_calls_in_block(expr.block, FALSE)
      [] expr.kind = "Path" ->
           LET r == get_node_kind_from_path(expr.qpath)
           IN IF r.some THEN <<CallOf(r.kind, expr.hir_id, r.add_edge, FALSE)>>
              ELSE <<>>
      [] expr.kind = "Ret" -> RetCalls(CallsOfExprs(expr.subs))
      [] expr.kind \in LeafKinds -> <<>>
      [] OTHER -> CallsOfExprs(expr.subs)

\* the statements of a block: Let (its initialiser), Item (nothing), Expr and Semi
CallsOfStmts(stmts) ==
    IF stmts = <<>> THEN <<>>
    ELSE LET s == Head(stmts)
         IN (IF s.skind = "Item" \/ s.exp = NoExpr THEN <<>>
             ELSE get_function_calls_in_expression(s.exp))
            \o CallsOfStmts(Tail(stmts))

\* get_function_calls_in_block: the final expression first, then the statements.
\* A final DropTemps holding a block returns that block's calls alone; a final
\* DropTemps holding anything else contributes nothing.
get_function_calls_in_block(block, is_fn) ==
    LET exp == block.expr
    IN IF exp # NoExpr /\ exp.kind = "DropTemps" /\ exp.subs[1].kind = "Block"
       THEN get_function_calls_in_block(exp.subs[1].block, is_fn)
       ELSE (IF exp = NoExpr \/ exp.kind = "DropTemps" THEN <<>>
             ELSE FinalExprCalls(get_function_calls_in_expression(exp), is_fn))
            \o CallsOfStmts(block.stmts)


(***************************************************************************)
(* The analysed programs.  A body is a block of items; an item is one of   *)
(* the statement forms below applied to a callee.  The HirId of an         *)
(* expression is <<function, item position, place in the item>>.           *)
(***************************************************************************)
DefKindOf(def_id) == IF def_id = "clos" THEN "Closure" ELSE "Fn"

\* c(): a call the MIR resolves; the callee is a path to the definition
\* (a variable holding the closure, for "clos")
PlainCall(c, id) ==
    CallE(id, c,
          PathE(<<id[1], id[2], 2>>,
                IF c = "clos" THEN ResolvedLocal ELSE ResolvedDef(DefKindOf(c), c)),
          <<>>)

\* the HIR of one item
\*   call    c()            the MIR records the callee
\*   pcall   c()            no MIR callee: resolved through the callee path
\*   try     c()?           match Try::branch(c()) { .. } with MatchSource::TryDesugar;
\*                          branch is a lang-item path the MIR lookup does not resolve
\*   ret     return c()
\*   arg     v(c())         v a local variable: the outer call is unresolved
\*   callee  c()()          the callee is itself a call: the outer call is unresolved
\*   capture || { ext() }   the closure "clos", evaluated and not invoked
\*   tryarg  ext(c())?      a call as the argument of the forwarded call
\*   cond    if c() { }     a call as the condition of an if-expression
ItemExpr(t, d, j) ==
    LET id0 == <<d, j, 0>>
        id1 == <<d, j, 1>>
        id2 == <<d, j, 2>>
    IN CASE t.form = "call" -> PlainCall(t.callee, id0)
         [] t.form = "pcall" ->
              CallE(id0, NoDef, PathE(id2, ResolvedDef(DefKindOf(t.callee), t.callee)), <<>>)
         [] t.form = "try" ->
              MatchE(CallE(id0, NoDef, PathE(id2, LangItemPath),
                           <<PlainCall(t.callee, id1)>>),
                     <<>>, "TryDesugar")
         [] t.form = "ret" -> SubsE("Ret", <<PlainCall(t.callee, id1)>>)
         [] t.form = "arg" ->
              CallE(id0, NoDef, PathE(id2, ResolvedLocal), <<PlainCall(t.callee, id1)>>)
         [] t.form = "callee" ->
              CallE(id0, NoDef, PlainCall(t.callee, id1), <<>>)
         [] t.form = "capture" -> ClosureE(id0, "clos")
         [] t.form = "tryarg" ->
              MatchE(CallE(id0, NoDef, PathE(id2, LangItemPath),
                           <<CallE(id1, "ext", PathE(id2, ResolvedDef("Fn", "ext")),
                                   <<PlainCall(t.callee, <<d, j, 3>>)>>)>>),
                     <<>>, "TryDesugar")
         [] t.form = "cond" ->
              SubsE("If", <<PlainCall(t.callee, id0), BlockE("Block", BlockOf(<<>>, NoExpr))>>)

Tpl(form, callee) == [form |-> form, callee |-> callee]

Templates ==
    {Tpl("call", c) : c \in AllDefs}
    \cup {Tpl("try", "ext"), Tpl("ret", "fn1"), Tpl("pcall", "fn1"),
          Tpl("arg", "fn1"), Tpl("callee", "fn1"), Tpl("capture", "clos"),
          Tpl("tryarg", "fn1"), Tpl("cond", "fn1")}

\* how a block ends: without a final expression, with the last item as its
\* final expression, or with that expression under DropTemps, bare or in a
\* block of its own (as the body of an async fn is lowered)
Tails == {"none", "expr", "drop_expr", "drop_block"}

\* the block of a fn item: the items as statements, the last one as the final
\* expression if the block has one
MkBody(d, ts, tail) ==
    LET n == Len(ts)
        k == IF tail = "none" THEN n ELSE n - 1
        stmt(j) == IF ts[j].form = "capture" THEN LetS(ItemExpr(ts[j], d, j))
                   ELSE SemiS(ItemExpr(ts[j], d, j))
        last == ItemExpr(ts[n], d, n)
    IN BlockOf([j \in 1..k |-> stmt(j)],
               CASE tail = "none" -> NoExpr
                 [] tail = "expr" -> last
                 [] tail = "drop_expr" -> SubsE("DropTemps", <<last>>)
                 [] tail = "drop_block" ->
                      SubsE("DropTemps", <<BlockE("Block", BlockOf(<<>>, last))>>))

\* the closure's body: || { ext(); }
ClosureBody == BlockOf(<<SemiS(PlainCall("ext", <<"clos", 1, 0>>))>>, NoExpr)

MkProg(entry, main_body, fn1_body) ==
    [entry |-> entry,
     body |-> [d \in LocalDefs |->
                 CASE d = "main" -> main_body
                   [] d = "fn1" -> fn1_body
                   [] OTHER -> ClosureBody]]

EmptyBody == BlockOf(<<>>, NoExpr)

(***************************************************************************)
(* The compiler's queries.                                                 *)
(***************************************************************************)
\* TyCtxt::hir_node: the HIR node behind a HirId
hir_node(p, id) ==
    CASE id[1] = "hir" /\ id[2] \in FnItems ->
           [node |-> "Item", item_kind |-> "Fn", body_id |-> BodyId(id[2])]
      [] id[1] = "hir" /\ id[2] = "clos" ->
           [node |-> "Expr", expr |-> ClosureE(<<"clos", 0, 0>>, "clos")]
      [] id[1] = "body" /\ id[2] \in LocalDefs ->
           [node |-> "Expr", expr |-> BlockE("Block", p.body[id[2]])]
      [] OTHER -> [node |-> "Other"]

\* the mutation of EntryUsable that C9 is tested against
EntryUsable_Always(p) == TRUE

\* context.entry_fn(()) and def_id.as_local(): is there an entry function of
\* the local crate?
EntryUsable(p) == p.entry # NoDef /\ as_local(p.entry)

(***************************************************************************)
(* create_graph.rs: the builder.                                           *)
(***************************************************************************)
\* add_calls_from_block, line 68: one invocation, about to process calls[i]
Frame(from, block) ==
    [from |-> from, calls |-> get_function_calls_in_block(block, TRUE), i |-> 1]

\* add_calls_from_function: the invocations of add_calls_from_block it starts
RECURSIVE add_calls_from_function(_, _, _)
add_calls_from_function(p, from_node, fn_id) ==
    LET node == hir_node(p, fn_id)
    IN CASE node.node = "Expr" ->
              IF node.expr.kind = "Block" THEN <<Frame(from_node, node.expr.block)>>
              ELSE IF node.expr.kind = "Closure"
                   THEN add_calls_from_function(p, from_node, node.expr.body_id)
                   ELSE <<>>
         [] node.node = "Block" -> <<Frame(from_node, node.block)>>
         [] node.node \in {"Item", "ImplItem"} ->
              IF node.item_kind = "Fn"
              THEN add_calls_from_function(p, from_node, node.body_id)
              ELSE <<>>
         [] OTHER -> <<>>

\* the node a call resolves to, if the graph holds it
FindNode(g, node_kind) ==
    IF node_kind.tag = "LocalFn"
    THEN find_local_fn_node(g, node_kind.hir_id)
    ELSE find_non_local_fn_node(g, node_kind.def_id)

\* only a new LocalFn node is explored
ExploreNew(p, id, node_kind) ==
    IF node_kind.tag = "LocalFn"
    THEN add_calls_from_function(p, id, node_kind.hir_id)
    ELSE <<>>

\* one iteration of add_calls_from_block's loop, for the call c found in the
\* body of node `from`: the graph afterwards, the invocations started, and
\* the definition whose exploration started (or NoDef)
AddCall(p, g, from, c) ==
    LET found == FindNode(g, c.kind)
    IN IF found.found
       THEN [graph |-> IF c.add_edge
                       THEN add_edge(g, EdgeNew(from, found.node.id, c.call_id, c.propagates))
                       ELSE g,
             frames |-> <<>>, started |-> NoDef]
       ELSE LET id == Len(g.nodes)
                g1 == add_node(g, def_path_str(c.kind.def_id), c.kind)
            IN [graph |-> IF c.add_edge
                          THEN add_edge(g1, EdgeNew(from, id, c.call_id, c.propagates))
                          ELSE g1,
                frames |-> ExploreNew(p, id, c.kind),
                started |-> IF c.kind.tag = "LocalFn" THEN c.kind.def_id ELSE NoDef]

Top == stack[Len(stack)]

\* analysis.rs, analyze: context.entry_fn(())? and def_id.as_local()? return None
AnalyzeReturnsNone ==
    /\ result = "start"
    /\ ~EntryUsable(prog)
    /\ result' = "None"
    /\ UNCHANGED <<prog, graph, stack, traversed, chainVars, typeVars, twin, cli, split, pass, cmd>>

\* analysis/mod.rs, get_entry_node: both expect() calls panic
GetEntryNodePanics ==
    /\ result = "start"
    /\ ~EntryUsable(prog)
    /\ result' = "panic"
    /\ UNCHANGED <<prog, graph, stack, traversed, chainVars, typeVars, twin, cli, split, pass, cmd>>

\* analyze with an entry function: create_call_graph_from_root registers the
\* entry node and starts on its body
CreateCallGraphFromRoot ==
    /\ result = "start"
    /\ EntryUsable(prog)
    /\ LET node == local_fn(prog.entry, local_def_id_to_hir_id(prog.entry))
           g == add_node(GraphNew, def_path_str(node.def_id), node)
           frames == add_calls_from_function(prog, 0, BodyId(prog.entry))
       IN /\ graph' = g
          /\ stack' = frames
          /\ traversed' = [traversed EXCEPT ![prog.entry] = @ + 1]
          /\ result' = IF frames = <<>> THEN "Some" ELSE "building"
    /\ UNCHANGED <<prog, chainVars, typeVars, twin, cli, split, pass, cmd>>

\* add_calls_from_block: the loop body for the next call of the innermost
\* invocation
AddCallsFromBlock ==
    /\ result = "building"
    /\ stack # <<>>
    /\ Top.i <= Len(Top.calls)
    /\ Len(graph.nodes) < NodeCap
    /\ LET r == AddCall(prog, graph, Top.from, Top.calls[Top.i])
       IN /\ graph' = r.graph
          /\ stack' = [stack EXCEPT ![Len(stack)].i = @ + 1] \o r.frames
          /\ traversed' = IF r.started = NoDef THEN traversed
                          ELSE [traversed EXCEPT ![r.started] = @ + 1]
    /\ UNCHANGED <<prog, result, chainVars, typeVars, twin, cli, split, pass, cmd>>

\* add_calls_from_block returns: the loop is over.  When the outermost
\* invocation returns, analyze returns the graph.
ReturnFromBlock ==
    /\ result = "building"
    /\ stack # <<>>
    /\ Top.i > Len(Top.calls)
    /\ stack' = SubSeq(stack, 1, Len(stack) - 1)
    /\ result' = IF Len(stack) = 1 THEN "Some" ELSE "building"
    /\ UNCHANGED <<prog, graph, traversed, chainVars, typeVars, twin, cli, split, pass, cmd>>

\* the programs analysed: up to MaxSites items over the bodies of main and fn1,
\* or a crate without a usable entry function
Programs(n0, n1) ==
    {MkProg("main", MkBody("main", t0, tail0), MkBody("fn1", t1, "none")) :
        t0 \in [1..n0 -> Templates], t1 \in [1..n1 -> Templates],
        tail0 \in {t \in Tails : t # "none" => n0 > 0}}

Init ==
    /\ \/ \E n0 \in 0..MaxSites : \E n1 \in 0..(MaxSites - n0) :
             prog \in Programs(n0, n1)
       \/ prog \in {MkProg(e, EmptyBody, EmptyBody) : e \in {NoDef, "ext"}}
    /\ graph = GraphNew
    /\ stack = <<>>
    /\ traversed = [d \in LocalDefs |-> 0]
    /\ result = "start"
    /\ cg = GraphNew
    /\ open = <<>>
    /\ chain = NotRun
    /\ ret_ty = NotRun
    /\ classified = NotRun
    /\ twin = NotRun
    /\ cli = NotRun
    /\ split = NotRun
    /\ pass = NotRun
    /\ cmd = NotRun

Next ==
    \/ AnalyzeReturnsNone
    \/ GetEntryNodePanics
    \/ CreateCallGraphFromRoot
    \/ AddCallsFromBlock
    \/ ReturnFromBlock

Spec == Init /\ [][Next]_vars

\* the builder is a sequential program: it keeps taking its next step
FairSpec == Spec /\ WF_vars(Next)

(***************************************************************************)
(* Two runs of the builder on one program.                                 *)
(***************************************************************************)
TwinStart == [run |-> TRUE, graph |-> GraphNew, stack |-> <<>>, result |-> "start"]

\* create_call_graph_from_root, for the second run
TwinCreate(p, s) ==
    LET node == local_fn(p.entry, local_def_id_to_hir_id(p.entry))
        frames == add_calls_from_function(p, 0, BodyId(p.entry))
    IN [s EXCEPT !.graph = add_node(GraphNew, def_path_str(node.def_id), node),
                 !.stack = frames,
                 !.result = IF frames = <<>> THEN "Some" ELSE "building"]

\* add_calls_from_block, for the second run: the loop body, or the return
TwinBlock(p, s) ==
    LET top == s.stack[Len(s.stack)]
    IN IF top.i <= Len(top.calls)
       THEN LET r == AddCall(p, s.graph, top.from, top.calls[top.i])
            IN [s EXCEPT !.graph = r.graph,
                         !.stack = [s.stack EXCEPT ![Len(s.stack)].i = @ + 1] \o r.frames]
       ELSE [s EXCEPT !.stack = SubSeq(s.stack, 1, Len(s.stack) - 1),
                      !.result = IF Len(s.stack) = 1 THEN "Some" ELSE "building"]

\* the mutation of TwinSuccessors that C16 is tested against: a call may be
\* passed over
TwinSuccessors_MaySkip(p, s) ==
    CASE s.result = "start" /\ ~EntryUsable(p) ->
           {[s EXCEPT !.result = "None"], [s EXCEPT !.result = "panic"]}
      [] s.result = "start" /\ EntryUsable(p) -> {TwinCreate(p, s)}
      [] s.result = "building" ->
           {TwinBlock(p, s)}
           \cup {[s EXCEPT !.stack = [s.stack EXCEPT ![Len(s.stack)].i = @ + 1]] :
                   x \in {y \in {1} : s.stack[Len(s.stack)].i <= Len(s.stack[Len(s.stack)].calls)}}
      [] OTHER -> {}

\* the steps the analysis can take next in the second run
TwinSuccessors(p, s) ==
    CASE s.result = "start" /\ ~EntryUsable(p) ->
           {[s EXCEPT !.result = "None"], [s EXCEPT !.result = "panic"]}
      [] s.result = "start" /\ EntryUsable(p) -> {TwinCreate(p, s)}
      [] s.result = "building" -> {TwinBlock(p, s)}
      [] OTHER -> {}

SecondRunSteps ==
    /\ twin.run
    /\ \E t \in TwinSuccessors(prog, twin) : twin' = t
    /\ UNCHANGED <<buildVars, chainVars, typeVars, cli, split, pass, cmd>>

InitRuns ==
    /\ \/ \E n0 \in 0..MaxSites : \E n1 \in 0..(MaxSites - n0) :
             prog \in Programs(n0, n1)
       \/ prog \in {MkProg(e, EmptyBody, EmptyBody) : e \in {NoDef, "ext"}}
    /\ graph = GraphNew
    /\ stack = <<>>
    /\ traversed = [d \in LocalDefs |-> 0]
    /\ result = "start"
    /\ twin = TwinStart
    /\ cli = NotRun
    /\ split = NotRun
    /\ pass = NotRun
    /\ cmd = NotRun
    /\ cg = GraphNew
    /\ open = <<>>
    /\ chain = NotRun
    /\ ret_ty = NotRun
    /\ classified = NotRun

NextRuns ==
    \/ Next
    \/ SecondRunSteps

SpecRuns == InitRuns /\ [][NextRuns]_vars

(***************************************************************************)
(* calls_to_chains.rs: the chain extractor, run on an annotated call graph. *)
(***************************************************************************)
MaxEdges == 4
MaxNodes == 4
\* the deepest recursion of get_chain_from_edge the stack holds
StackCap == 6

Max(a, b) == IF a > b THEN a ELSE b
Min(a, b) == IF a < b THEN a ELSE b

\* a CallEdge after annotation: ty and is_error are filled in
AnnotatedEdge(from, to, call_id, propagates, is_error) ==
    [EdgeNew(from, to, call_id, propagates) EXCEPT
        !.is_error = is_error,
        !.ty = IF is_error THEN "E" ELSE "T"]

\* impl PartialEq for CallEdge: only the end points are compared
EdgeEq(a, b) == a.to = b.to /\ a.from = b.from

\* Vec<CallEdge>::contains, by that equality
ContainsEdge(res, edge) == \E i \in 1..Len(res) : EdgeEq(res[i], edge)

\* the mutation of VecContains that C4 is tested against
VecContains_Never(explored, id) == FALSE

\* Vec<usize>::contains
VecContains(explored, id) == \E i \in 1..Len(explored) : explored[i] = id

\* Graph::get_outgoing_edges: the edges leaving node_id, in edge order
get_outgoing_edges(g, node_id) ==
    SelectSeq(g.edges, LAMBDA edge : edge.from = node_id)

\* the mutation of IsChainStart that C7 is tested against
IsChainStart_AnyError(edge) == edge.is_error

\* to_chains, line 14: the edge starts a chain
IsChainStart(edge) == edge.is_error /\ ~edge.propagates

\* the mutation of ExtendsChain that C26 is tested against
ExtendsChain_Every(edge) == TRUE

\* the mutation of ExtendsChain that C3 is tested against
ExtendsChain_AnyError(edge) == edge.is_error

\* get_chain_from_edge, line 75: the edge extends a chain
ExtendsChain(edge) == edge.is_error /\ edge.propagates

\* get_chain_from_edge: the edges found, the depth reached and `explored`
\* afterwards; overflow tells that the recursion outgrew the stack
RECURSIVE get_chain_from_edge(_, _, _, _)
RECURSIVE ChainLoop(_, _, _, _, _)
ChainLoop(g, from, edges, depth, acc) ==
    IF edges = <<>> THEN acc
    ELSE LET edge == Head(edges)
             rest == Tail(edges)
         IN IF ~ExtendsChain(edge) THEN ChainLoop(g, from, rest, depth, acc)
            ELSE IF /\ ~VecContains(acc.explored, edge.to)
                    /\ ~ContainsEdge(acc.res, edge)
                    /\ ~EdgeEq(edge, from)
            THEN IF depth + 1 > StackCap
                 THEN [acc EXCEPT !.overflow = TRUE]
                 ELSE LET sub == get_chain_from_edge(g, edge, acc.explored, depth + 1)
                      IN ChainLoop(g, from, rest, depth,
                                   [res |-> Append(acc.res, edge) \o sub.res,
                                    max_depth |-> Max(acc.max_depth, sub.max_depth),
                                    explored |-> sub.explored,
                                    overflow |-> acc.overflow \/ sub.overflow])
            ELSE ChainLoop(g, from, rest, depth, [acc EXCEPT !.res = Append(@, edge)])
get_chain_from_edge(g, from, explored, depth) ==
    ChainLoop(g, from, get_outgoing_edges(g, from.to), depth,
              [res |-> <<>>, max_depth |-> depth,
               explored |-> Append(explored, from.to), overflow |-> FALSE])

\* ChainGraph::new
ChainGraphNew == [nodes |-> <<>>, edges |-> <<>>]
\* ChainGraph::add_node
ChainGraph_add_node(cgr, label) ==
    [cgr EXCEPT !.nodes = Append(@, [id |-> Len(cgr.nodes), label |-> label])]
\* the mutation of ChainGraph_add_edge that C14 is tested against
ChainGraph_add_edge_Unlabelled(cgr, from, to, label) ==
    [cgr EXCEPT !.edges = Append(@, [from |-> from, to |-> to, label |-> "None"])]

\* ChainGraph::add_edge
ChainGraph_add_edge(cgr, from, to, label) ==
    [cgr EXCEPT !.edges = Append(@, [from |-> from, to |-> to, label |-> label])]

\* to_chains, lines 30-51: the calls of one chain enter the chain graph; node_map
\* maps the call graph's node ids to the chain graph's
RECURSIVE AddCallsToChainGraph(_, _, _, _)
AddCallsToChainGraph(g, calls, node_map, new_graph) ==
    IF calls = <<>> THEN new_graph
    ELSE LET call == Head(calls)
             has_from == call.from \in DOMAIN node_map
             from == IF has_from THEN node_map[call.from] ELSE Len(new_graph.nodes)
             g1 == IF has_from THEN new_graph
                   ELSE ChainGraph_add_node(new_graph, g.nodes[call.from + 1].label)
             m1 == IF has_from THEN node_map ELSE node_map @@ (call.from :> from)
             has_to == call.to \in DOMAIN m1
             to == IF has_to THEN m1[call.to] ELSE Len(g1.nodes)
             g2 == IF has_to THEN g1
                   ELSE ChainGraph_add_node(g1, g.nodes[call.to + 1].label)
             m2 == IF has_to THEN m1 ELSE m1 @@ (call.to :> to)
         IN AddCallsToChainGraph(g, Tail(calls), m2,
                                 ChainGraph_add_edge(g2, from, to, call.ty))

\* the mutation of F64Div that C15 is tested against
F64Div_Swapped(x, y) ==
    [num |-> y, den |-> x, nan |-> (y = 0 /\ x = 0), inf |-> (x = 0 /\ y # 0)]

\* (x as f64) / (y as f64): the quotient num/den; with den = 0 it is not a
\* number for num = 0 and infinite otherwise
F64Div(x, y) ==
    [num |-> x, den |-> y, nan |-> (y = 0 /\ x = 0), inf |-> (y = 0 /\ x # 0)]

\* to_chains, lines 12-53: the loop over the edges from the i-th on
RECURSIVE ToChainsLoop(_, _, _)
ToChainsLoop(g, i, acc) ==
    IF i > Len(g.edges) THEN acc
    ELSE LET edge == g.edges[i]
         IN IF ~IsChainStart(edge) THEN ToChainsLoop(g, i + 1, acc)
            ELSE LET r == get_chain_from_edge(g, edge, <<>>, 1)
                     calls == Append(r.res, edge)
                     size == Len(calls)
                 IN ToChainsLoop(g, i + 1,
                      [count |-> acc.count + 1,
                       max_size |-> Max(acc.max_size, size),
                       total_size |-> acc.total_size + size,
                       max_depth |-> Max(acc.max_depth, r.max_depth),
                       new_graph |-> AddCallsToChainGraph(g, calls, <<>>, acc.new_graph),
                       overflow |-> acc.overflow \/ r.overflow,
                       chains |-> Append(acc.chains,
                                         [start |-> edge, calls |-> calls,
                                          depth |-> r.max_depth,
                                          explored |-> r.explored])])

\* to_chains: the chain graph, the statistics printed, and for each start
\* edge the calls of its chain
to_chains(g) ==
    LET r == ToChainsLoop(g, 1,
                 [count |-> 0, max_size |-> 0, total_size |-> 0, max_depth |-> 0,
                  new_graph |-> ChainGraphNew, overflow |-> FALSE, chains |-> <<>>])
    IN [run |-> TRUE, count |-> r.count, max_size |-> r.max_size,
        total_size |-> r.total_size, max_depth |-> r.max_depth,
        average_size |-> F64Div(r.total_size, r.count),
        new_graph |-> r.new_graph, overflow |-> r.overflow, chains |-> r.chains]

\* the label and kind of the i-th function of an annotated graph
FnName(i) == <<"fn", i>>

\* what the annotation finds for a call: an error type, another type, or
\* no type at all
Annotations == {"error", "other", "unknown"}

\* one more call found by the builder: an edge to a node it holds or to a new
\* one, as the annotation leaves it
WithCall(g, from, to, propagates, ann) ==
    LET g1 == IF to = Len(g.nodes)
              THEN add_node(g, FnName(to), local_fn(FnName(to), <<"hir", FnName(to)>>))
              ELSE g
        call_id == <<"call", Len(g.edges)>>
    IN add_edge(g1, IF ann = "unknown" THEN EdgeNew(from, to, call_id, propagates)
                    ELSE AnnotatedEdge(from, to, call_id, propagates, ann = "error"))

EntryGraph == add_node(GraphNew, FnName(0), local_fn(FnName(0), <<"hir", FnName(0)>>))

\* the builder, seen from the chain extractor: depth first, the body of a new
\* function before the rest of its caller's.  `open` holds the nodes whose
\* bodies are under traversal.  The next call of the innermost body is found
\* and annotated.
BuilderAddsCall ==
    /\ ~chain.run
    /\ open # <<>>
    /\ Len(cg.edges) < MaxEdges
    /\ \E to \in 0..Min(Len(cg.nodes), MaxNodes - 1), pr \in BOOLEAN, ann \in Annotations :
          /\ cg' = WithCall(cg, open[Len(open)], to, pr, ann)
          /\ open' = IF to = Len(cg.nodes) THEN Append(open, to) ELSE open
    /\ UNCHANGED <<chain, buildVars, typeVars, twin, cli, split, pass, cmd>>

\* the innermost body has no further call
BuilderLeavesBody ==
    /\ ~chain.run
    /\ open # <<>>
    /\ open' = SubSeq(open, 1, Len(open) - 1)
    /\ UNCHANGED <<cg, chain, buildVars, typeVars, twin, cli, split, pass, cmd>>

\* the analysis hands the finished, annotated call graph to to_chains
ToChains ==
    /\ ~chain.run
    /\ open = <<>>
    /\ chain' = to_chains(cg)
    /\ UNCHANGED <<cg, open, buildVars, typeVars, twin, cli, split, pass, cmd>>

InitChains ==
    /\ cg = EntryGraph
    /\ open = <<0>>
    /\ chain = NotRun
    /\ prog = MkProg("main", EmptyBody, EmptyBody)
    /\ graph = GraphNew
    /\ stack = <<>>
    /\ traversed = [d \in LocalDefs |-> 0]
    /\ result = "start"
    /\ ret_ty = NotRun
    /\ classified = NotRun
    /\ twin = NotRun
    /\ cli = NotRun
    /\ split = NotRun
    /\ pass = NotRun
    /\ cmd = NotRun

NextChains ==
    \/ BuilderAddsCall
    \/ BuilderLeavesBody
    \/ ToChains

SpecChains == InitChains /\ [][NextChains]_vars

(***************************************************************************)
(* types.rs: the type classifier.                                          *)
(***************************************************************************)
\* the number of type constructors in a declared return type
MaxTySize == 5

\* a type: its constructor and its arguments
Ty(con, args) == [con |-> con, args |-> args]
UnitTy == Ty("()", <<>>)

\* the constructors of declared types: with no, one and two arguments.  Res and
\* OtherType are the aliases type Res<T> = Result<T, ()> and
\* type OtherType<T> = Option<T>; Future is the opaque type of an async fn.
Nullary == {"()", "i32"}
Unary == {"Option", "Future", "Res", "OtherType"}
Binary == {"Result", "Tuple"}

RECURSIVE TypesOfSize(_)
TypesOfSize(n) ==
    IF n = 1 THEN {Ty(c, <<>>) : c \in Nullary}
    ELSE {Ty(c, <<a>>) : c \in Unary, a \in TypesOfSize(n - 1)}
         \cup UNION {{Ty(c, <<a, b>>) : c \in Binary, a \in TypesOfSize(i),
                                        b \in TypesOfSize(n - 1 - i)} :
                       i \in 1..(n - 2)}

\* the compiler's Ty of a declared type: aliases are expanded
RECURSIVE Expand(_)
Expand(decl) ==
    CASE decl.con = "Res" -> Ty("Result", <<Expand(decl.args[1]), UnitTy>>)
      [] decl.con = "OtherType" -> Ty("Option", <<Expand(decl.args[1])>>)
      [] OTHER -> Ty(decl.con, [i \in 1..Len(decl.args) |-> Expand(decl.args[i])])

\* format!("{ty}"): the printed type, as its tokens
RECURSIVE Format(_)
Format(ty) ==
    CASE ty.con = "Option" ->
           <<"std::option::Option<">> \o Format(ty.args[1]) \o <<">">>
      [] ty.con = "Result" ->
           <<"std::result::Result<">> \o Format(ty.args[1]) \o <<", ">>
           \o Format(ty.args[2]) \o <<">">>
      [] ty.con = "Tuple" ->
           <<"(">> \o Format(ty.args[1]) \o <<", ">> \o Format(ty.args[2]) \o <<")">>
      [] ty.con = "Future" ->
           <<"impl std::future::Future<Output = ">> \o Format(ty.args[1]) \o <<">">>
      [] OTHER -> <<ty.con>>

\* str::starts_with("std::result::Result<") and str::ends_with
StartsWithResult(format) == format # <<>> /\ format[1] = "std::result::Result<"
EndsWith(format, suffix) ==
    /\ Len(suffix) <= Len(format)
    /\ SubSeq(format, Len(format) - Len(suffix) + 1, Len(format)) = suffix

\* Ty::walk: the type and its generic arguments, depth first.  The output of
\* an opaque future is no generic argument of it.
RECURSIVE Walk(_)
Walk(ty) ==
    IF ty.con = "Future" THEN <<ty>>
    ELSE <<ty>> \o Flatten([i \in 1..Len(ty.args) |-> Walk(ty.args[i])])

NoneArg == [some |-> FALSE]
SomeArg(arg) == [some |-> TRUE, val |-> arg]

\* the first of args that is printed as a Result
FirstResult(args) ==
    LET hits == {i \in 1..Len(args) : /\ StartsWithResult(Format(args[i]))
                                      /\ EndsWith(Format(args[i]), <<">">>)}
    IN IF hits = {} THEN NoneArg
       ELSE SomeArg(args[CHOOSE i \in hits : \A j \in hits : i <= j])

\* the mutation of extract_result that C6 is tested against
extract_result_Nothing(ty) == NoneArg

\* extract_result
extract_result(ty) == FirstResult(Walk(ty))

\* TyCtxt::ty_is_opaque_future
ty_is_opaque_future(ty) == ty.con = "Future"

\* the generic arguments of the coroutine behind an opaque future: among
\* them its yield type and its return type
CoroutineArgs(ty) == <<UnitTy, ty.args[1]>>

\* extract_result_from_future: the coroutine arguments of the opaque types
\* walked
extract_result_from_future(ty) ==
    LET walked == Walk(ty)
        opaque == SelectSeq(walked, LAMBDA t : t.con = "Future")
    IN FirstResult(Flatten([i \in 1..Len(opaque) |-> CoroutineArgs(opaque[i])]))

\* extract_error_from_result
extract_error_from_result(opt) ==
    IF ~opt.some THEN NoneArg
    ELSE LET t == opt.val
             walked == Walk(t)
             hits == {i \in 1..Len(walked) :
                        EndsWith(Format(t), <<", ">> \o Format(walked[i]) \o <<">">>)}
         IN IF hits = {} THEN NoneArg
            ELSE SomeArg(Format(walked[CHOOSE i \in hits : \A j \in hits : i <= j]))

\* get_call_type_using_mir: the callee's output type at the call site, if the
\* caller's MIR is available and holds the call
get_call_type_using_mir(call) ==
    IF call.mir_available THEN SomeArg(Expand(call.decl)) ELSE NoneArg

\* get_call_type_using_context: the output type of the callee's signature
get_call_type_using_context(call) == Expand(call.decl)

\* get_call_type
get_call_type(call) ==
    LET ty == get_call_type_using_mir(call)
    IN IF ty.some THEN ty.val ELSE get_call_type_using_context(call)

\* get_error_or_type
get_error_or_type(call) ==
    LET ty == get_call_type(call)
        found == IF ty_is_opaque_future(ty) THEN extract_result_from_future(ty)
                 ELSE extract_result(ty)
        res == extract_error_from_result(found)
    IN [run |-> TRUE,
        label |-> IF res.some THEN res.val ELSE Format(ty),
        is_error |-> res.some]

\* the declared return types of the callees classified
DeclaredTypes == UNION {TypesOfSize(n) : n \in 1..MaxTySize}

\* the annotation asks for the classification of a call
GetErrorOrType ==
    /\ ~classified.run
    /\ classified' = get_error_or_type(ret_ty)
    /\ UNCHANGED <<ret_ty, buildVars, chainVars, twin, cli, split, pass, cmd>>

InitTypes ==
    /\ ret_ty \in {[decl |-> d, mir_available |-> m] : d \in DeclaredTypes, m \in BOOLEAN}
    /\ classified = NotRun
    /\ twin = NotRun
    /\ cli = NotRun
    /\ split = NotRun
    /\ pass = NotRun
    /\ cmd = NotRun
    /\ prog = MkProg("main", EmptyBody, EmptyBody)
    /\ graph = GraphNew
    /\ stack = <<>>
    /\ traversed = [d \in LocalDefs |-> 0]
    /\ result = "start"
    /\ cg = GraphNew
    /\ open = <<>>
    /\ chain = NotRun

NextTypes == GetErrorOrType

SpecTypes == InitTypes /\ [][NextTypes]_vars

(***************************************************************************)
(* analysis/format_graph.rs: split_chains and find_chains.  find_chains is *)
(* a function of the graph and the edge alone: an invocation on an edge    *)
(* that is already being evaluated further up repeats itself without end.  *)
(* The operator follows the recursion with the edges under evaluation and  *)
(* the nodes of the path at hand, and reports that case as diverges.       *)
(***************************************************************************)
\* find_chains, line 32: the outgoing edge is followed
FollowsEdge(edge) == edge.is_error /\ edge.propagates

RECURSIVE find_chains(_, _, _, _)
RECURSIVE FindChainsLoop(_, _, _, _, _, _)
\* the loop of find_chains over the outgoing edges of start_edge.to
FindChainsLoop(g, start_edge, out, active, path, acc) ==
    IF out = <<>> \/ acc.diverges THEN acc
    ELSE LET edge == Head(out)
         IN IF FollowsEdge(edge)
            THEN LET r == find_chains(g, edge, active \cup {start_edge.call_id},
                                      Append(path, edge.to))
                     extended == [k \in 1..Len(r.res) |-> <<start_edge>> \o r.res[k]]
                 IN FindChainsLoop(g, start_edge, Tail(out), active, path,
                        [res |-> acc.res \o extended,
                         diverges |-> r.diverges,
                         reenters |-> acc.reenters \/ r.reenters
                                      \/ edge.to \in Range(path)])
            ELSE FindChainsLoop(g, start_edge, Tail(out), active, path, acc)

\* find_chains: every path of followed edges from start_edge, each as the
\* list of its edges; <<start_edge>> alone if no edge is followed
find_chains(g, start_edge, active, path) ==
    IF start_edge.call_id \in active
    THEN [res |-> <<>>, diverges |-> TRUE, reenters |-> TRUE]
    ELSE LET r == FindChainsLoop(g, start_edge, get_outgoing_edges(g, start_edge.to),
                                 active, path,
                                 [res |-> <<>>, diverges |-> FALSE, reenters |-> FALSE])
         IN IF ~r.diverges /\ r.res = <<>>
            THEN [r EXCEPT !.res = <<<<start_edge>>>>]
            ELSE r

RECURSIVE AddChainToGraph(_, _, _, _)
\* split_chains, lines 16-20: a new node per edge of the chain
AddChainToGraph(g, new_graph, prev, chain_edges) ==
    IF chain_edges = <<>> THEN new_graph
    ELSE LET new == Len(new_graph.nodes)
             a == ChainGraph_add_node(new_graph, g.nodes[Head(chain_edges).to + 1].label)
         IN AddChainToGraph(g, ChainGraph_add_edge(a, prev, new, Head(chain_edges).ty),
                            new, Tail(chain_edges))

RECURSIVE AddChainsToGraph(_, _, _, _)
\* split_chains, lines 14-21: each chain found from the start edge
AddChainsToGraph(g, new_graph, edge, chains) ==
    IF chains = <<>> THEN new_graph
    ELSE LET prev == Len(new_graph.nodes)
             a == ChainGraph_add_node(new_graph, g.nodes[edge.from + 1].label)
         IN AddChainsToGraph(g, AddChainToGraph(g, a, prev, Head(chains)),
                             edge, Tail(chains))

RECURSIVE SplitChainsLoop(_, _, _)
SplitChainsLoop(g, edges, acc) ==
    IF edges = <<>> \/ acc.diverges THEN acc
    ELSE LET edge == Head(edges)
         IN IF edge.is_error /\ ~edge.propagates
            THEN LET r == find_chains(g, edge, {}, <<edge.from, edge.to>>)
                 IN SplitChainsLoop(g, Tail(edges),
                        [run |-> TRUE,
                         diverges |-> r.diverges,
                         reenters |-> acc.reenters \/ r.reenters,
                         chains |-> acc.chains \o r.res,
                         new_graph |-> IF r.diverges THEN acc.new_graph
                                       ELSE AddChainsToGraph(g, acc.new_graph, edge, r.res)])
            ELSE SplitChainsLoop(g, Tail(edges), acc)

\* split_chains: the chain graph, or no return at all
split_chains(g) ==
    SplitChainsLoop(g, g.edges,
                    [run |-> TRUE, diverges |-> FALSE, reenters |-> FALSE,
                     chains |-> <<>>, new_graph |-> ChainGraphNew])

\* format hands the finished, annotated call graph to split_chains
FormatGraph ==
    /\ ~split.run
    /\ open = <<>>
    /\ split' = split_chains(cg)
    /\ UNCHANGED <<buildVars, chainVars, typeVars, twin, cli, pass, cmd>>

NextFormat ==
    \/ BuilderAddsCall
    \/ BuilderLeavesBody
    \/ FormatGraph

SpecFormat == InitChains /\ [][NextFormat]_vars

(***************************************************************************)
(* analysis/mod.rs: analyze.  After the graph is built, one loop labels    *)
(* every edge with the printed return type of its call and a second loop,  *)
(* over the indices backwards, removes the edges that are no error calls.  *)
(***************************************************************************)
\* String: the printed type of a token sequence
RECURSIVE Concat(_)
Concat(tokens) == IF tokens = <<>> THEN "" ELSE Head(tokens) \o Concat(Tail(tokens))

\* str::starts_with
starts_with(str, prefix) ==
    Len(prefix) <= Len(str) /\ SubSeq(str, 1, Len(prefix)) = prefix

\* what get_call_type answers for a call: no type, or the return type
CallTypes ==
    {NoneArg} \cup
    {SomeArg(ty) : ty \in {Ty("i32", <<>>),
                           Ty("Result", <<Ty("i32", <<>>), UnitTy>>),
                           Ty("Option", <<Ty("Result", <<Ty("i32", <<>>), UnitTy>>)>>)}}

\* the mutation of Annotated that C27 is tested against
Annotated_Forwarding(edge, call_ty) ==
    [edge EXCEPT !.ty = IF call_ty.some THEN Concat(Format(call_ty.val)) ELSE "None",
                 !.propagates = call_ty.some]

\* analyze, line 35: edge.ty = call_ty.map(|t| format!("{t}"))
Annotated(edge, call_ty) ==
    [edge EXCEPT !.ty = IF call_ty.some THEN Concat(Format(call_ty.val)) ELSE "None"]

\* the mutation of VecRemove that C28 is tested against
VecRemove_Front(vec, index) == Tail(vec)

\* Vec::remove(index), the index counted from 0
VecRemove(vec, index) == SubSeq(vec, 1, index) \o SubSeq(vec, index + 2, Len(vec))

\* analyze, lines 44-51: the edge at index i is to be removed
IsRedundant(g, edge) ==
    IF edge.ty # "None"
    THEN ~starts_with(edge.ty, "std::result::Result<") /\ ~g.nodes[edge.to + 1].panics
    ELSE TRUE

PassStart ==
    [run |-> TRUE, phase |-> "build", i |-> 0, built |-> GraphNew,
     annotated |-> GraphNew, visits |-> <<>>]

\* analyze, line 29: create_call_graph_from_root has returned the graph
GraphBuilt ==
    /\ pass.run /\ pass.phase = "build"
    /\ result = "Some"
    /\ pass' = [pass EXCEPT !.phase = "annotate", !.i = 0, !.built = graph,
                            !.visits = [j \in 1..Len(graph.edges) |-> 0]]
    /\ UNCHANGED <<buildVars, chainVars, typeVars, twin, cli, split, cmd>>

\* analyze, lines 32-36: one turn of the loop over &mut graph.edges
AnnotateEdge ==
    /\ pass.run /\ pass.phase = "annotate"
    /\ pass.i < Len(graph.edges)
    /\ \E call_ty \in CallTypes :
         graph' = [graph EXCEPT !.edges[pass.i + 1] = Annotated(@, call_ty)]
    /\ pass' = [pass EXCEPT !.i = @ + 1, !.visits[pass.i + 1] = @ + 1]
    /\ UNCHANGED <<prog, stack, traversed, result, chainVars, typeVars, twin, cli, split, cmd>>

\* analyze, line 42: the range (0..graph.edges.len()).rev() is taken
StartPruning ==
    /\ pass.run /\ pass.phase = "annotate"
    /\ pass.i = Len(graph.edges)
    /\ pass' = [pass EXCEPT !.phase = "prune", !.i = Len(graph.edges) - 1,
                            !.annotated = graph]
    /\ UNCHANGED <<buildVars, chainVars, typeVars, twin, cli, split, cmd>>

\* analyze, lines 42-52: one turn of the loop; indexing outside the vectors
\* panics
PruneEdge ==
    /\ pass.run /\ pass.phase = "prune"
    /\ pass.i >= 0
    /\ IF pass.i >= Len(graph.edges)
       THEN pass' = [pass EXCEPT !.phase = "panic"] /\ UNCHANGED graph
       ELSE LET edge == graph.edges[pass.i + 1]
            IN IF edge.ty # "None" /\ edge.to >= Len(graph.nodes)
               THEN pass' = [pass EXCEPT !.phase = "panic"] /\ UNCHANGED graph
               ELSE /\ graph' = IF IsRedundant(graph, edge)
                                THEN [graph EXCEPT !.edges = VecRemove(@, pass.i)]
                                ELSE graph
                    /\ pass' = [pass EXCEPT !.i = @ - 1]
    /\ UNCHANGED <<prog, stack, traversed, result, chainVars, typeVars, twin, cli, split, cmd>>

\* analyze, line 54: the graph is returned
ReturnGraph ==
    /\ pass.run /\ pass.phase = "prune"
    /\ pass.i < 0
    /\ pass' = [pass EXCEPT !.phase = "done"]
    /\ UNCHANGED <<buildVars, chainVars, typeVars, twin, cli, split, cmd>>

\* the crates analysed: calls of another crate's function and of fn1, as
\* statements of main and of fn1
CallTemplates == {Tpl("call", c) : c \in {"ext", "fn1"}}

CallPrograms(n0, n1) ==
    {MkProg("main", MkBody("main", t0, "none"), MkBody("fn1", t1, "none")) :
        t0 \in [1..n0 -> CallTemplates], t1 \in [1..n1 -> CallTemplates]}

InitAnalyze ==
    /\ \/ \E n0 \in 0..MaxSites : \E n1 \in 0..(MaxSites - n0) :
             prog \in CallPrograms(n0, n1)
       \/ prog \in {MkProg(e, EmptyBody, EmptyBody) : e \in {NoDef, "ext"}}
    /\ graph = GraphNew
    /\ stack = <<>>
    /\ traversed = [d \in LocalDefs |-> 0]
    /\ result = "start"
    /\ pass = PassStart
    /\ cmd = NotRun
    /\ cg = GraphNew
    /\ open = <<>>
    /\ chain = NotRun
    /\ ret_ty = NotRun
    /\ classified = NotRun
    /\ twin = NotRun
    /\ cli = NotRun
    /\ split = NotRun

NextAnalyze ==
    \/ Next
    \/ GraphBuilt
    \/ AnnotateEdge
    \/ StartPruning
    \/ PruneEdge
    \/ ReturnGraph

SpecAnalyze == InitAnalyze /\ [][NextAnalyze]_vars

(***************************************************************************)
(* main.rs: split_args.  Strings are strings; a character is a string of   *)
(* length one.                                                             *)
(***************************************************************************)
MaxCmdWords == 3

CharAt(str, i) == SubSeq(str, i, i)

\* str::ends_with
ends_with(str, suffix) ==
    Len(suffix) <= Len(str)
    /\ SubSeq(str, Len(str) - Len(suffix) + 1, Len(str)) = suffix

\* str::contains
contains(str, pat) ==
    \E i \in 1..(Len(str) - Len(pat) + 1) : SubSeq(str, i, i + Len(pat) - 1) = pat

\* str::strip_prefix and str::strip_suffix
strip_prefix(str, prefix) ==
    IF starts_with(str, prefix) THEN SomeArg(SubSeq(str, Len(prefix) + 1, Len(str)))
    ELSE NoneArg
strip_suffix(str, suffix) ==
    IF ends_with(str, suffix) THEN SomeArg(SubSeq(str, 1, Len(str) - Len(suffix)))
    ELSE NoneArg

\* str::trim_end_matches
RECURSIVE trim_end_matches(_, _)
trim_end_matches(str, pat) ==
    IF ends_with(str, pat) /\ pat # ""
    THEN trim_end_matches(SubSeq(str, 1, Len(str) - Len(pat)), pat)
    ELSE str

\* str::replace, from the character at i on
RECURSIVE ReplaceFrom(_, _, _, _)
ReplaceFrom(str, i, from, to) ==
    IF i > Len(str) THEN ""
    ELSE IF SubSeq(str, i, Min(Len(str), i + Len(from) - 1)) = from
         THEN to \o ReplaceFrom(str, i + Len(from), from, to)
         ELSE CharAt(str, i) \o ReplaceFrom(str, i + 1, from, to)
replace(str, from, to) == ReplaceFrom(str, 1, from, to)

\* str::split(' '), from the character at i on; cur is the piece at hand
RECURSIVE SplitFrom(_, _, _)
SplitFrom(str, i, cur) ==
    IF i > Len(str) THEN <<cur>>
    ELSE IF CharAt(str, i) = " " THEN <<cur>> \o SplitFrom(str, i + 1, "")
         ELSE SplitFrom(str, i + 1, cur \o CharAt(str, i))
split_at_spaces(str) == SplitFrom(str, 1, "")

\* split_args, lines 108-148: the loop over the pieces; a failed expect panics
RECURSIVE SplitLoop(_, _, _, _)
SplitLoop(relative_manifest_path, pieces, temp, res) ==
    IF pieces = <<>> THEN [panic |-> FALSE, res |-> res]
    ELSE LET piece == Head(pieces)
             arg == IF contains(piece, "main.rs")
                    THEN trim_end_matches(relative_manifest_path, "Cargo.toml") \o piece
                    ELSE piece
             rest == Tail(pieces)
             quote == "\""
         IN CASE starts_with(arg, quote) /\ ends_with(arg, quote) ->
                   LET inner == strip_suffix(strip_prefix(arg, quote).val, quote)
                   IN IF ~inner.some THEN [panic |-> TRUE, res |-> <<>>]
                      ELSE SplitLoop(relative_manifest_path, rest, "",
                                     Append(res, temp \o inner.val))
              [] ~starts_with(arg, quote) /\ ends_with(arg, quote) ->
                   SplitLoop(relative_manifest_path, rest, "",
                             Append(res, temp \o strip_suffix(arg, quote).val))
              [] starts_with(arg, quote) /\ ~ends_with(arg, quote) ->
                   SplitLoop(relative_manifest_path, rest,
                             temp \o strip_prefix(arg, quote).val \o " ", res)
              [] OTHER ->
                   IF temp # ""
                   THEN SplitLoop(relative_manifest_path, rest, temp \o arg \o " ", res)
                   ELSE SplitLoop(relative_manifest_path, rest, temp, Append(res, arg))

\* split_args, lines 151-162: for i in 0..len, len taken before the loop
RECURSIVE OverwriteLoop(_, _, _)
OverwriteLoop(res, i, len) ==
    IF i >= len \/ i >= Len(res) THEN res
    ELSE LET unescaped == replace(res[i + 1], "\\\"", "\"")
             short == IF starts_with(unescaped, "--error-format=")
                      THEN "--error-format=short" ELSE unescaped
             res1 == [res EXCEPT ![i + 1] = short]
         IN OverwriteLoop(IF starts_with(short, "--json=") THEN VecRemove(res1, i)
                          ELSE res1,
                          i + 1, len)

\* split_args
split_args(relative_manifest_path, command) ==
    LET r == SplitLoop(relative_manifest_path, split_at_spaces(command), "", <<>>)
    IN IF r.panic THEN [run |-> TRUE, panic |-> TRUE, res |-> <<>>]
       ELSE [run |-> TRUE, panic |-> FALSE, res |-> OverwriteLoop(r.res, 0, Len(r.res))]

\* the pieces of the rustc command lines that cargo build -vv prints
CmdWords ==
    {"rustc", "--error-format=json", "--json=artifacts", "\"--json=x\"",
     "src/main.rs", "\"a", "b\""}

RECURSIVE Join(_)
Join(words) ==
    IF words = <<>> THEN ""
    ELSE IF Len(words) = 1 THEN words[1]
    ELSE words[1] \o " " \o Join(Tail(words))

Commands == {Join(ws) : ws \in UNION {[1..n -> CmdWords] : n \in 0..MaxCmdWords}}

\* get_compiler_args, line 100: split_args(relative_manifest_path, &command)
SplitArgs ==
    /\ cmd.run /\ ~cmd.args.run
    /\ cmd' = [cmd EXCEPT !.args = split_args(cmd.relative_manifest_path, cmd.command)]
    /\ UNCHANGED <<buildVars, chainVars, typeVars, twin, cli, split, pass>>

InitArgs ==
    /\ cmd \in {[run |-> TRUE, relative_manifest_path |-> "crate/Cargo.toml",
                 command |-> c, args |-> NotRun] : c \in Commands}
    /\ prog = MkProg("main", EmptyBody, EmptyBody)
    /\ graph = GraphNew
    /\ stack = <<>>
    /\ traversed = [d \in LocalDefs |-> 0]
    /\ result = "start"
    /\ cg = GraphNew
    /\ open = <<>>
    /\ chain = NotRun
    /\ ret_ty = NotRun
    /\ classified = NotRun
    /\ twin = NotRun
    /\ cli = NotRun
    /\ split = NotRun
    /\ pass = NotRun

NextArgs == SplitArgs

SpecArgs == InitArgs /\ [][NextArgs]_vars

(***************************************************************************)
(* main.rs: the command line.  args[1] is the program name, as in          *)
(* std::env::args; Rust's args.get(i) is args[i + 1] here.                 *)
(***************************************************************************)
MaxArgs == 4

Words == {"analyzer", "Cargo.toml", "out.dot", "--call", "--chain"}

ArgLists == UNION {[1..n -> Words] : n \in 0..MaxArgs}

\* the mutation of extract_arguments that C18 is tested against
extract_arguments_Plain(args) ==
    IF Len(args) < 3
    THEN [exit |-> TRUE]
    ELSE [exit |-> FALSE, manifest |-> args[2], output |-> args[3],
          remove_redundant |-> (Len(args) >= 4 /\ args[4] = "--call")]

\* extract_arguments: usage and exit with fewer than three arguments, else
\* (args[1], args[2], !args.get(3).is_some_and(|arg| arg == "--call"))
extract_arguments(args) ==
    IF Len(args) < 3
    THEN [exit |-> TRUE]
    ELSE [exit |-> FALSE, manifest |-> args[2], output |-> args[3],
          remove_redundant |-> ~(Len(args) >= 4 /\ args[4] = "--call")]

CliStart(args) ==
    [run |-> TRUE, args |-> args, pc |-> "main", usage |-> FALSE,
     exit_code |-> "none", remove_redundant |-> FALSE, output |-> "none",
     analyzed |-> FALSE, dot |-> "none", written |-> "none", printed |-> "none"]

\* main, up to extract_arguments
ExtractArguments ==
    /\ cli.run /\ cli.pc = "main"
    /\ LET r == extract_arguments(cli.args)
       IN cli' = IF r.exit
                 THEN [cli EXCEPT !.pc = "exited", !.usage = TRUE,
                                  !.exit_code = "EXIT_FAILURE"]
                 ELSE [cli EXCEPT !.pc = "extracted", !.output = r.output,
                                  !.remove_redundant = r.remove_redundant]
    /\ UNCHANGED <<buildVars, chainVars, typeVars, twin, split, pass, cmd>>

\* main: get_compiler_args(..) returned the rustc invocation
GetCompilerArgs ==
    /\ cli.run /\ cli.pc = "extracted"
    /\ cli' = [cli EXCEPT !.pc = "compiling"]
    /\ UNCHANGED <<buildVars, chainVars, typeVars, twin, split, pass, cmd>>

\* main: get_compiler_args(..).expect(..) on None, or a panic below it
GetCompilerArgsPanics ==
    /\ cli.run /\ cli.pc = "extracted"
    /\ cli' = [cli EXCEPT !.pc = "panicked"]
    /\ UNCHANGED <<buildVars, chainVars, typeVars, twin, split, pass, cmd>>

\* run_compiler: the compiler stops before the callback is reached
RunCompilerFails ==
    /\ cli.run /\ cli.pc = "compiling"
    /\ cli' = [cli EXCEPT !.pc = "ran", !.exit_code = "EXIT_FAILURE"]
    /\ UNCHANGED <<buildVars, chainVars, typeVars, twin, split, pass, cmd>>

\* AnalysisCallback::after_crate_root_parsing: analyse, pick the graph by
\* self.1, write it to self.0 or, if that fails, print it
AfterCrateRootParsing ==
    /\ cli.run /\ cli.pc = "compiling"
    /\ \E write_ok \in BOOLEAN :
         LET dot == IF cli.remove_redundant THEN "chain_graph" ELSE "call_graph"
         IN cli' = [cli EXCEPT !.pc = "ran", !.analyzed = TRUE, !.dot = dot,
                               !.written = IF write_ok THEN dot ELSE "none",
                               !.printed = IF write_ok THEN "none" ELSE dot,
                               !.exit_code = "EXIT_SUCCESS"]
    /\ UNCHANGED <<buildVars, chainVars, typeVars, twin, split, pass, cmd>>

InitMain ==
    /\ cli \in {CliStart(args) : args \in ArgLists}
    /\ split = NotRun
    /\ pass = NotRun
    /\ cmd = NotRun
    /\ twin = NotRun
    /\ prog = MkProg("main", EmptyBody, EmptyBody)
    /\ graph = GraphNew
    /\ stack = <<>>
    /\ traversed = [d \in LocalDefs |-> 0]
    /\ result = "start"
    /\ cg = GraphNew
    /\ open = <<>>
    /\ chain = NotRun
    /\ ret_ty = NotRun
    /\ classified = NotRun

NextMain ==
    \/ ExtractArguments
    \/ GetCompilerArgs
    \/ GetCompilerArgsPanics
    \/ RunCompilerFails
    \/ AfterCrateRootParsing

SpecMain == InitMain /\ [][NextMain]_vars

(***************************************************************************)
(* What the claims about the builder speak of.                             *)
(***************************************************************************)
\* every expression inside an expression, itself included: callee, receiver,
\* arguments, scrutinee, arms, blocks
RECURSIVE SubExprs(_)
RECURSIVE SubExprsOfSeq(_)
RECURSIVE SubExprsOfBlock(_)
SubExprsOfSeq(es) ==
    IF es = <<>> THEN <<>> ELSE SubExprs(Head(es)) \o SubExprsOfSeq(Tail(es))
SubExprsOfBlock(b) ==
    SubExprsOfSeq([j \in 1..Len(b.stmts) |-> b.stmts[j].exp])
    \o SubExprs(b.expr)
SubExprs(e) ==
    CASE e = NoExpr -> <<>>
      [] e.kind = "Call" -> <<e>> \o SubExprs(e.func) \o SubExprsOfSeq(e.args)
      [] e.kind = "MethodCall" -> <<e>> \o SubExprs(e.recv) \o SubExprsOfSeq(e.args)
      [] e.kind = "Match" ->
           <<e>> \o SubExprs(e.exp)
           \o SubExprsOfSeq([j \in 1..Len(e.arms) |-> e.arms[j].body])
           \o SubExprsOfSeq([j \in 1..Len(e.arms) |-> e.arms[j].guard])
      [] e.kind \in BlockKinds -> <<e>> \o SubExprsOfBlock(e.block)
      [] e.kind \in {"Closure", "Path"} -> <<e>>
      [] OTHER -> <<e>> \o SubExprsOfSeq(e.subs)

\* the call expressions written in the body of a local definition
CallSitesOf(d) ==
    LET es == SubExprsOfBlock(prog.body[d])
    IN {es[j] : j \in {k \in 1..Len(es) : es[k].kind \in {"Call", "MethodCall"}}}

\* the definition a call expression targets: the compiled call target if one
\* is recorded, otherwise the definition its callee path names; NoDef if neither
TargetOf(e) ==
    IF e.mir # NoDef THEN e.mir
    ELSE IF e.kind = "Call" /\ e.func.kind = "Path" /\ e.func.qpath.q = "Resolved"
            /\ e.func.qpath.is_def
         THEN e.func.qpath.def_id
         ELSE NoDef

Unresolved(e) == TargetOf(e) = NoDef

NodeAt(id) == graph.nodes[id + 1]
Edges == Range(graph.edges)
EdgeIdx == 1..Len(graph.edges)
HasNodeFor(d) == \E i \in 1..Len(graph.nodes) : graph.nodes[i].kind.def_id = d
Finished == result = "Some"

\* the expression with this HirId
SiteOf(call_id) ==
    LET es == SubExprsOfBlock(prog.body[call_id[1]])
    IN es[CHOOSE j \in 1..Len(es) : es[j].kind \in {"Call", "MethodCall", "Closure", "Path"}
                                    /\ es[j].hir_id = call_id]

\* C1: the node list holds at most one node per function identity (no two
\* LocalFn nodes with the same HirId, no two NonLocalFn nodes with the same
\* DefId), and every edge of a call site leads to the one node of the identity
\* the call site resolves to.
C1_OneNodePerIdentity ==
    /\ \A i, j \in 1..Len(graph.nodes) :
         i # j =>
           /\ ~(/\ graph.nodes[i].kind.tag = "LocalFn"
                /\ graph.nodes[j].kind.tag = "LocalFn"
                /\ graph.nodes[i].kind.hir_id = graph.nodes[j].kind.hir_id)
           /\ ~(/\ graph.nodes[i].kind.tag = "NonLocalFn"
                /\ graph.nodes[j].kind.tag = "NonLocalFn"
                /\ graph.nodes[i].kind.def_id = graph.nodes[j].kind.def_id)
    /\ \A e \in Edges :
         /\ e.to < Len(graph.nodes)
         /\ NodeAt(e.to).kind.def_id = TargetOf(SiteOf(e.call_id))
         /\ NodeAt(e.to).kind.tag = IF TargetOf(SiteOf(e.call_id)) \in LocalDefs
                                    THEN "LocalFn" ELSE "NonLocalFn"

\* two call sites of one external function and two call sites of one local
\* function, each pair sharing a node, in a finished graph
C1_Witness ==
    /\ Finished
    /\ \E a, b \in EdgeIdx :
         /\ a # b
         /\ graph.edges[a].to = graph.edges[b].to
         /\ NodeAt(graph.edges[a].to).kind.tag = "NonLocalFn"
    /\ \E a, b \in EdgeIdx :
         /\ a # b
         /\ graph.edges[a].to = graph.edges[b].to
         /\ NodeAt(graph.edges[a].to).kind.tag = "LocalFn"

\* (C2) add_calls_from_function has started on a local definition once if
\* its node is registered and never otherwise, recursion or not
C2_TraversedOnce ==
    \A d \in LocalDefs : traversed[d] = IF HasNodeFor(d) THEN 1 ELSE 0
\* C2: construction of the call graph terminates, also for directly and
\* mutually recursive functions, and in every state add_calls_from_function
\* has started on a local definition at most once: once its node is registered.
C2_TerminatesTraversingOnce ==
    /\ []C2_TraversedOnce
    /\ <>(result \in {"Some", "None", "panic"})

\* main calls itself and main and fn1 call each other, in a finished graph
C2_Witness ==
    /\ Finished
    /\ \E e \in Edges : e.from = 0 /\ e.to = 0
    /\ \E e, f \in Edges : e.from = 0 /\ e.to = f.from /\ f.to = 0 /\ e.to # 0
    /\ traversed["main"] = 1 /\ traversed["fn1"] = 1

\* the item a call site belongs to, as written in its function's block
StmtOf(call_id) ==
    LET b == prog.body[call_id[1]]
    IN IF call_id[2] <= Len(b.stmts) THEN b.stmts[call_id[2]].exp ELSE b.expr
IsFinalExpr(call_id) == call_id[2] > Len(prog.body[call_id[1]].stmts)
\* g()? : the call is the operand of the error-forwarding operator
IsTryOperand(call_id) ==
    LET s == StmtOf(call_id)
    IN s.kind = "Match" /\ s.src = "TryDesugar" /\ s.exp.kind = "Call"
       /\ Len(s.exp.args) = 1 /\ s.exp.args[1].hir_id = call_id
\* return i(); : the call is the operand of return
IsRetOperand(call_id) ==
    LET s == StmtOf(call_id)
    IN s.kind = "Ret" /\ Len(s.subs) = 1 /\ s.subs[1].hir_id = call_id
\* h(); : the call is a whole expression statement
IsDiscardedCall(call_id) ==
    ~IsFinalExpr(call_id) /\ StmtOf(call_id).kind = "Call"
    /\ StmtOf(call_id).hir_id = call_id
\* the call is the final expression of the function's block
IsFinalCall(call_id) ==
    IsFinalExpr(call_id) /\ StmtOf(call_id).kind = "Call"
    /\ StmtOf(call_id).hir_id = call_id

\* C5: the edge of a call that is the operand of the error-forwarding
\* operator, the operand of return, or the final expression of the function
\* body has propagates = true; the edge of a call that is an expression
\* statement has propagates = false.
C5_ForwardingDetection ==
    \A e \in Edges :
        /\ IsTryOperand(e.call_id) => e.propagates
        /\ IsRetOperand(e.call_id) => e.propagates
        /\ IsFinalCall(e.call_id) => e.propagates
        /\ IsDiscardedCall(e.call_id) => ~e.propagates

\* fn main() { g()?; h(); return i(); } analysed to the end
C5_Shape ==
    /\ Len(prog.body["main"].stmts) = 3
    /\ IsTryOperand(<<"main", 1, 1>>)
    /\ IsDiscardedCall(<<"main", 2, 0>>)
    /\ IsRetOperand(<<"main", 3, 1>>)
C5_Witness ==
    /\ Finished
    /\ C5_Shape
    /\ \E e \in Edges : e.call_id = <<"main", 1, 1>> /\ e.propagates
    /\ \E e \in Edges : e.call_id = <<"main", 2, 0>> /\ ~e.propagates
    /\ \E e \in Edges : e.call_id = <<"main", 3, 1>> /\ e.propagates

\* C9: without an entry function of the local crate analyze yields no graph:
\* it returns None or panics, and no node or edge is ever created.
NoLocalEntry == prog.entry = NoDef \/ prog.entry \notin LocalDefs
C9_NoEntryNoGraph ==
    NoLocalEntry => /\ result \in {"start", "None", "panic"}
                    /\ graph = GraphNew

\* the entry function is another crate's, and analyze has ended
C9_Witness == prog.entry = "ext" /\ result \in {"None", "panic"}

\* C10: an unresolved call adds no edge, and in a body holding one every
\* other call, the ones among its sub-expressions included, has its edge once
\* the graph is finished.
C10_UnresolvedSkippedRestFound ==
    Finished =>
      \A d \in LocalDefs :
        (traversed[d] > 0 /\ \E u \in CallSitesOf(d) : Unresolved(u)) =>
          \A c \in CallSitesOf(d) :
            IF Unresolved(c)
            THEN \A e \in Edges : e.call_id # c.hir_id
            ELSE \E e \in Edges : e.call_id = c.hir_id

(***************************************************************************)
(* What the claims about the chain extractor speak of.                     *)
(***************************************************************************)
CgIdx == 1..Len(cg.edges)
ErrProp(e) == e.is_error /\ e.propagates
ErrStart(e) == e.is_error /\ ~e.propagates
StartIdx == {i \in CgIdx : ErrStart(cg.edges[i])}

\* the nodes reachable from the nodes S along propagating error edges
RECURSIVE PropReach(_)
PropReach(S) ==
    LET T == S \cup {cg.edges[i].to : i \in {j \in CgIdx : ErrProp(cg.edges[j])
                                                          /\ cg.edges[j].from \in S}}
    IN IF T = S THEN S ELSE PropReach(T)

\* the edge occurrences a start edge's chain is to hold
ChainOf(s) ==
    {s.call_id} \cup {cg.edges[i].call_id :
                        i \in {j \in CgIdx : ErrProp(cg.edges[j])
                                             /\ cg.edges[j].from \in PropReach({s.to})}}

CallIds(calls) == {calls[i].call_id : i \in 1..Len(calls)}
Occurrences(calls, id) == Cardinality({i \in 1..Len(calls) : calls[i].call_id = id})
EdgeWithId(id) == cg.edges[CHOOSE i \in CgIdx : cg.edges[i].call_id = id]
ChainIdx == 1..Len(chain.chains)
LabelsOf(cgr) == {cgr.nodes[i].label : i \in 1..Len(cgr.nodes)}

\* a -> b (error, not propagating), b -> c (error, propagating), c -> d (not error)
ExampleABCD ==
    /\ Len(cg.edges) = 3
    /\ cg.edges[1].from = 0 /\ cg.edges[1].to = 1 /\ ErrStart(cg.edges[1])
    /\ cg.edges[2].from = 1 /\ cg.edges[2].to = 2 /\ ErrProp(cg.edges[2])
    /\ cg.edges[3].from = 2 /\ cg.edges[3].to = 3 /\ ~cg.edges[3].is_error

\* C3: the chain of a start edge s is s and every propagating error edge
\* whose source is reachable from s.to along such edges, each occurrence once,
\* with nothing else; the chain graph holds the end points of these edges only;
\* for a -> b, b -> c, c -> d as above there is one chain over a, b, c with
\* count = 1 and max_depth = 2.
C3_ChainIsReachablePropagation ==
    chain.run =>
      /\ \A i \in StartIdx : \E k \in ChainIdx : chain.chains[k].start = cg.edges[i]
      /\ \A k \in ChainIdx :
           LET c == chain.chains[k]
           IN /\ ErrStart(c.start)
              /\ CallIds(c.calls) = ChainOf(c.start)
              /\ Len(c.calls) = Cardinality(ChainOf(c.start))
              /\ \A i \in 1..Len(c.calls) : c.calls[i] = EdgeWithId(c.calls[i].call_id)
      /\ LabelsOf(chain.new_graph) =
           UNION {{FnName(EdgeWithId(id).from), FnName(EdgeWithId(id).to)} :
                    id \in UNION {ChainOf(cg.edges[i]) : i \in StartIdx}}
      /\ ExampleABCD =>
           /\ chain.count = 1
           /\ chain.max_depth = 2
           /\ LabelsOf(chain.new_graph) = {FnName(0), FnName(1), FnName(2)}
           /\ Len(chain.new_graph.edges) = 2

\* to_chains has run on a -> b, b -> c, c -> d
C3_Witness == chain.run /\ ExampleABCD /\ chain.count = 1 /\ Len(chain.chains[1].calls) = 2

\* C4: to_chains ends without outgrowing the stack; for one start edge
\* get_chain_from_edge enters no node twice, and a propagating error edge that
\* leads back to a node already entered is in the chain exactly once.
C4_CycleGuard ==
    chain.run =>
      /\ ~chain.overflow
      /\ \A k \in ChainIdx :
           LET c == chain.chains[k]
           IN /\ \A i, j \in 1..Len(c.explored) : i # j => c.explored[i] # c.explored[j]
              /\ Len(c.explored) <= Len(cg.nodes)
              /\ \A i \in CgIdx :
                   (/\ ErrProp(cg.edges[i])
                    /\ cg.edges[i].from \in Range(c.explored)
                    /\ cg.edges[i].to \in Range(c.explored))
                   => Occurrences(c.calls, cg.edges[i].call_id) = 1

\* a start edge into a, and propagating error edges a -> b and b -> a
CycleABA ==
    \E s, e, f \in CgIdx :
        /\ ErrStart(cg.edges[s]) /\ ErrProp(cg.edges[e]) /\ ErrProp(cg.edges[f])
        /\ cg.edges[e].from = cg.edges[s].to
        /\ cg.edges[f].from = cg.edges[e].to
        /\ cg.edges[f].to = cg.edges[e].from
        /\ cg.edges[e].from # cg.edges[e].to
C4_Witness == chain.run /\ CycleABA

\* the only start edge leads to a node with two propagating error edges, the
\* only ones of the graph, to two different end nodes
BranchingStart ==
    /\ Cardinality(StartIdx) = 1
    /\ \E e, f \in CgIdx :
         /\ e # f
         /\ {i \in CgIdx : ErrProp(cg.edges[i])} = {e, f}
         /\ \A s \in StartIdx : cg.edges[e].from = cg.edges[s].to
                                /\ cg.edges[f].from = cg.edges[s].to
         /\ cg.edges[e].to # cg.edges[f].to
         /\ cg.edges[e].to # cg.edges[e].from
         /\ cg.edges[f].to # cg.edges[f].from

C8_AverageGuarded ==
    (chain.run /\ StartIdx = {}) =>
      /\ chain.count = 0
      /\ chain.new_graph = ChainGraphNew
      /\ ~chain.overflow
      /\ chain.average_size.den # 0
      /\ ~chain.average_size.nan

(***************************************************************************)
(* What the claims about the type classifier speak of.                     *)
(***************************************************************************)
\* the declared type is the Result type or an alias that expands to it
DeclaredResult(decl) == decl.con \in {"Result", "Res"}
\* its error type argument, as the compiler prints it
ErrorArgOf(decl) ==
    IF decl.con = "Res" THEN <<"()">> ELSE Format(Expand(decl.args[2]))
\* no Result, written out or behind an alias, anywhere in the declared type
RECURSIVE Unrelated(_)
Unrelated(decl) ==
    /\ ~DeclaredResult(decl)
    /\ \A i \in 1..Len(decl.args) : Unrelated(decl.args[i])

\* C6: for a return type that is the Result type or an alias expanding to it
\* get_error_or_type gives is_error = true and the printed error type
\* argument; for a return type without any Result (an Option, a number, unit)
\* it gives is_error = false and the whole printed type.
C6_ResultClassified ==
    classified.run =>
      /\ DeclaredResult(ret_ty.decl) =>
           /\ classified.is_error
           /\ classified.label = ErrorArgOf(ret_ty.decl)
      /\ Unrelated(ret_ty.decl) =>
           /\ ~classified.is_error
           /\ classified.label = Format(Expand(ret_ty.decl))

\* fn test_alias_actual() -> Res<()> has been classified
C6_Witness ==
    /\ classified.run
    /\ ret_ty.decl = Ty("Res", <<UnitTy>>)
    /\ classified.is_error
    /\ classified.label = <<"()">>

(***************************************************************************)
(* Further claims about the builder.                                       *)
(***************************************************************************)
\* the index of the node of definition d
NodeOfDef(d) == (CHOOSE i \in 1..Len(graph.nodes) : graph.nodes[i].kind.def_id = d) - 1

\* the calls written inside the callee expression of a call of d (C10: the
\* builder does not look there)
InCalleeOf(d) ==
    UNION {LET es == SubExprs(c.func)
           IN {es[j] : j \in {k \in 1..Len(es) : es[k].kind \in {"Call", "MethodCall"}}} :
             c \in {x \in CallSitesOf(d) : x.kind = "Call"}}

\* the call expressions among a sequence of expressions
CallsAmong(es) == {es[j] : j \in {k \in 1..Len(es) : es[k].kind \in {"Call", "MethodCall"}}}

\* the calls of a block that its ending in DropTemps hides from the builder
\* (C19): those of the statements if DropTemps holds a block, and so on into
\* that block; those of the final expression if it holds anything else
RECURSIVE HiddenByDropTemps(_)
HiddenByDropTemps(b) ==
    IF b.expr = NoExpr THEN {}
    ELSE IF b.expr.kind # "DropTemps" THEN {}
    ELSE IF b.expr.subs[1].kind = "Block"
         THEN CallsAmong(SubExprsOfSeq([j \in 1..Len(b.stmts) |-> b.stmts[j].exp]))
              \cup HiddenByDropTemps(b.expr.subs[1].block)
         ELSE CallsAmong(SubExprs(b.expr.subs[1]))

\* the resolved call sites of d outside callee expressions and not hidden by
\* a final DropTemps
FoundCallSitesOf(d) ==
    {c \in (CallSitesOf(d) \ InCalleeOf(d)) \ HiddenByDropTemps(prog.body[d]) :
        ~Unresolved(c)}

\* C11: one edge per call-site occurrence: in a finished graph the edges from
\* f to g are as many as the call sites of g in the body of f, each site
\* having exactly one edge, although edges with equal (from, to) compare equal.
C11_EdgePerOccurrence ==
    Finished =>
      \A f \in LocalDefs : traversed[f] > 0 =>
        /\ \A c \in FoundCallSitesOf(f) :
             Cardinality({i \in EdgeIdx : graph.edges[i].call_id = c.hir_id}) = 1
        /\ \A g \in AllDefs :
             Cardinality({i \in EdgeIdx : /\ graph.edges[i].from = NodeOfDef(f)
                                          /\ HasNodeFor(g)
                                          /\ graph.edges[i].to = NodeOfDef(g)})
             = Cardinality({c \in FoundCallSitesOf(f) : TargetOf(c) = g})

\* main calls fn1 at three call sites: three edges (main, fn1)
C11_Witness ==
    /\ Finished
    /\ Cardinality({c \in FoundCallSitesOf("main") : TargetOf(c) = "fn1"}) = 3
    /\ Cardinality({i \in EdgeIdx : graph.edges[i].from = 0
                                    /\ NodeAt(graph.edges[i].to).kind.def_id = "fn1"}) = 3

IsPrefix(s, t) == Len(s) <= Len(t) /\ SubSeq(t, 1, Len(s)) = s

\* every edge joins nodes of the node list, every node's id is its position
C12_WellFormed ==
    /\ \A e \in Edges : e.from \in 0..(Len(graph.nodes) - 1)
                        /\ e.to \in 0..(Len(graph.nodes) - 1)
    /\ \A i \in 1..Len(graph.nodes) : graph.nodes[i].id = i - 1

\* C12: during construction and afterwards every edge's from and to are
\* indices of nodes in the node list, every node's id is its position, and a
\* step of the builder only appends to the node list: no node is removed or
\* moved.
C12_EdgesReferToKeptNodes ==
    /\ []C12_WellFormed
    /\ [][IsPrefix(graph.nodes, graph.nodes') /\ IsPrefix(graph.edges, graph.edges')]_vars

\* a finished graph of four nodes and three edges
C12_Witness == Finished /\ Len(graph.nodes) = 4 /\ Len(graph.edges) >= 3

\* C13: NonLocalFn nodes are leaves: no invocation of add_calls_from_block
\* ever works on the body of a NonLocalFn node, and no edge starts at one.
C13_ExternalNodesAreLeaves ==
    /\ \A i \in 1..Len(stack) : NodeAt(stack[i].from).kind.tag = "LocalFn"
    /\ \A e \in Edges : NodeAt(e.from).kind.tag = "LocalFn"

\* a finished graph with an external node that is called twice
C13_Witness ==
    /\ Finished
    /\ \E n \in 1..Len(graph.nodes) :
         /\ graph.nodes[n].kind.tag = "NonLocalFn"
         /\ Cardinality({i \in EdgeIdx : graph.edges[i].to = n - 1}) = 2
         /\ \A i \in EdgeIdx : graph.edges[i].from # n - 1

(***************************************************************************)
(* Further claims about the chain extractor.                               *)
(***************************************************************************)
\* the chain graph's edges of the k-th chain follow those of the chains before
RECURSIVE ChainOffset(_)
ChainOffset(k) == IF k = 1 THEN 0 ELSE ChainOffset(k - 1) + Len(chain.chains[k - 1].calls)
ChainEdgeOf(k, i) == chain.new_graph.edges[ChainOffset(k) + i]
CallIdxOf(k) == 1..Len(chain.chains[k].calls)
ChainNodesOf(k) ==
    UNION {{ChainEdgeOf(k, i).from, ChainEdgeOf(k, i).to} : i \in CallIdxOf(k)}
\* the end points of the k-th chain: <<source node, chain node>> pairs
EndPointsOf(k) ==
    UNION {{<<chain.chains[k].calls[i].from, ChainEdgeOf(k, i).from>>,
            <<chain.chains[k].calls[i].to, ChainEdgeOf(k, i).to>>} : i \in CallIdxOf(k)}

\* C14: each chain of the chain graph is self-contained: within a chain a
\* source function has one chain node, no chain node belongs to two chains,
\* a chain node's label is the source node's label and a chain edge's label
\* the source edge's ty.
C14_ChainsSelfContained ==
    chain.run =>
      /\ Len(chain.new_graph.edges) = ChainOffset(Len(chain.chains) + 1)
      /\ \A n \in 1..Len(chain.new_graph.nodes) : chain.new_graph.nodes[n].id = n - 1
      /\ UNION {ChainNodesOf(k) : k \in ChainIdx} = 0..(Len(chain.new_graph.nodes) - 1)
      /\ \A k \in ChainIdx :
           /\ \A p, q \in EndPointsOf(k) : (p[1] = q[1]) <=> (p[2] = q[2])
           /\ \A p \in EndPointsOf(k) :
                chain.new_graph.nodes[p[2] + 1].label = cg.nodes[p[1] + 1].label
           /\ \A i \in CallIdxOf(k) :
                ChainEdgeOf(k, i).label = chain.chains[k].calls[i].ty
           /\ \A l \in ChainIdx : k # l => ChainNodesOf(k) \cap ChainNodesOf(l) = {}

\* two chains that both hold the function 1: it has two chain nodes
C14_Witness ==
    /\ chain.run
    /\ chain.count = 2
    /\ \E p \in EndPointsOf(1), q \in EndPointsOf(2) : p[1] = 1 /\ q[1] = 1 /\ p[2] # q[2]

\* the largest chain, by its number of calls
LargestChain ==
    IF ChainIdx = {} THEN 0
    ELSE LET k == CHOOSE a \in ChainIdx :
                    \A b \in ChainIdx : Len(chain.chains[a].calls) >= Len(chain.chains[b].calls)
         IN Len(chain.chains[k].calls)

\* C15: count is the number of chains found, max_size the number of edges of
\* the largest chain (its start edge included), total_size the number of edges
\* added to the chain graph, and the average the quotient total_size / count.
C15_Statistics ==
    chain.run =>
      /\ chain.count = Len(chain.chains)
      /\ chain.count = Cardinality(StartIdx)
      /\ chain.max_size = LargestChain
      /\ chain.total_size = Len(chain.new_graph.edges)
      /\ chain.average_size.num = chain.total_size
      /\ chain.average_size.den = chain.count
      /\ chain.count > 0 => ~chain.average_size.nan /\ ~chain.average_size.inf

\* a chain of three calls and a chain of one call: average 4 / 2
C15_Witness ==
    /\ chain.run
    /\ chain.count = 2 /\ chain.max_size = 3 /\ chain.total_size = 4
    /\ chain.average_size.num = 4 /\ chain.average_size.den = 2

UnknownIdx == {i \in CgIdx : cg.edges[i].ty = "None"}

\* C17: an edge whose return type has not been determined has ty = None and
\* is_error = false, as CallEdge::new made it, is rendered with the label
\* "unknown", and is neither the start of a chain nor a part of one.
C17_UndeterminedEdges ==
    \A i \in UnknownIdx :
        LET e == cg.edges[i]
        IN /\ e = EdgeNew(e.from, e.to, e.call_id, e.propagates)
           /\ ~e.is_error
           /\ edge_label(e) = "unknown"
           /\ chain.run =>
                \A k \in ChainIdx :
                    /\ chain.chains[k].start.call_id # e.call_id
                    /\ e.call_id \notin CallIds(chain.chains[k].calls)

\* to_chains has run on a graph where an undetermined edge with propagates =
\* true leaves the target of a start edge
C17_Witness ==
    /\ chain.run
    /\ \E i \in UnknownIdx, s \in StartIdx :
         cg.edges[i].propagates /\ cg.edges[i].from = cg.edges[s].to

\* the argument after the output path, if there is one
FlagArg == IF Len(cli.args) >= 4 THEN cli.args[4] ELSE "absent"

\* C18: the graph the tool renders and writes is the call graph exactly when
\* the argument after the output path is "--call", and the error chain graph
\* with no such argument or any other value; with fewer than two arguments
\* after the program name it prints the usage and exits with failure without
\* analysing anything.
C18_OutputSelection ==
    cli.run =>
      /\ cli.dot # "none" =>
           /\ cli.dot = IF FlagArg = "--call" THEN "call_graph" ELSE "chain_graph"
           /\ cli.written \in {"none", cli.dot}
           /\ cli.printed \in {"none", cli.dot}
      /\ (Len(cli.args) < 3 /\ cli.pc # "main") =>
           /\ cli.pc = "exited" /\ cli.usage /\ cli.exit_code = "EXIT_FAILURE"
           /\ ~cli.analyzed /\ cli.written = "none" /\ cli.printed = "none"
      /\ cli.usage => Len(cli.args) < 3

\* the call graph was written for "--call"
C18_Witness ==
    /\ cli.run /\ cli.written = "call_graph" /\ FlagArg = "--call"

\* C19: a call nested anywhere in a body (statement, condition, argument,
\* nested block, final expression, also a final expression under DropTemps
\* and the statements before it) has exactly one edge once the graph is
\* finished.  Calls in callee position (C10) are left aside.
C19_EveryNestedCallFound ==
    Finished =>
      \A f \in LocalDefs : traversed[f] > 0 =>
        \A c \in CallSitesOf(f) \ InCalleeOf(f) :
          ~Unresolved(c) =>
            Cardinality({i \in EdgeIdx : graph.edges[i].call_id = c.hir_id}) = 1

\* fn main() { ext(); drop-temps { fn1() } } analysed to the end: the graph
\* has the edge of fn1() and none for ext()
C19_StatementsLost ==
    /\ Finished
    /\ Len(prog.body["main"].stmts) = 1
    /\ HiddenByDropTemps(prog.body["main"]) # {}
    /\ prog.body["main"].expr.subs[1].kind = "Block"
    /\ Len(graph.edges) = 1

\* the final expression is a call of its own under DropTemps and a block
IsWrappedFinalCall(call_id) ==
    /\ IsFinalExpr(call_id)
    /\ StmtOf(call_id).kind = "DropTemps"
    /\ StmtOf(call_id).subs[1].kind = "Block"
    /\ StmtOf(call_id).subs[1].block.expr.kind = "Call"
    /\ StmtOf(call_id).subs[1].block.expr.hir_id = call_id

\* C20: an edge has propagates = true only if its call is itself the operand
\* of the error-forwarding operator, the operand of return, or the final
\* expression of the function; a call that is an argument of the forwarded
\* call or the condition of a final if-expression has propagates = false.
C20_PropagatesOnlyDirect ==
    \A e \in Edges :
        e.propagates => \/ IsTryOperand(e.call_id)
                        \/ IsRetOperand(e.call_id)
                        \/ IsFinalCall(e.call_id)
                        \/ IsWrappedFinalCall(e.call_id)

\* fn main() { ext(fn1())?; } analysed to the end: the edge of fn1(), the
\* argument of the forwarded call, has propagates = true
C20_ArgumentFlagged ==
    /\ Finished
    /\ Len(prog.body["main"].stmts) = 1 /\ prog.body["main"].expr = NoExpr
    /\ \E e \in Edges : /\ e.call_id = <<"main", 1, 3>>
                        /\ e.propagates
                        /\ ~IsTryOperand(e.call_id)

\* fn main() { if fn1() { } } analysed to the end: the edge of the
\* condition's call has propagates = true
C20_ConditionFlagged ==
    /\ Finished
    /\ prog.body["main"].expr # NoExpr
    /\ prog.body["main"].expr.kind = "If"
    /\ \E e \in Edges : e.call_id[1] = "main" /\ IsFinalExpr(e.call_id) /\ e.propagates

(***************************************************************************)
(* Closures, node creation.                                                *)
(***************************************************************************)
\* the edges that lead to the node of definition d
EdgesTo(d) == {i \in EdgeIdx : NodeAt(graph.edges[i].to).kind.def_id = d}

\* C21: a closure expression that is only evaluated creates no edge to the
\* closure, and as long as no call site has invoked the closure (no edge
\* leads to it) its body is not traversed and the calls in its body have
\* added no edge.
C21_CapturedClosureNotTraversed ==
    /\ \A e \in Edges : SiteOf(e.call_id).kind # "Closure"
    /\ EdgesTo("clos") = {} =>
         /\ traversed["clos"] = 0
         /\ \A e \in Edges : e.call_id[1] # "clos"

\* fn main() { let v = || { ext(); }; } analysed to the end: the graph has
\* the closure's node, the node of ext and the edge of the call in the body
C21_CaptureTraversed ==
    /\ Finished
    /\ Len(prog.body["main"].stmts) = 1 /\ prog.body["main"].expr = NoExpr
    /\ prog.body["main"].stmts[1].exp.kind = "Closure"
    /\ Len(graph.nodes) = 3 /\ Len(graph.edges) = 1
    /\ traversed["clos"] = 1

\* C22: split_chains returns on every call graph, also when propagating
\* error edges reachable from a start edge form a cycle, and find_chains
\* never follows an edge into a node of the path it is extending.
C22_SplitChainsTerminates ==
    split.run => ~split.diverges /\ ~split.reenters

\* the graph a -> b (start), b -> c, c -> b (propagating errors): find_chains
\* on b -> c is invoked again while it is being evaluated
C22_CycleDiverges ==
    /\ split.run /\ split.diverges
    /\ Len(cg.edges) = 3
    /\ ErrStart(cg.edges[1]) /\ ErrProp(cg.edges[2]) /\ ErrProp(cg.edges[3])
    /\ cg.edges[2].from = cg.edges[1].to
    /\ cg.edges[3].from = cg.edges[2].to /\ cg.edges[3].to = cg.edges[2].from

(***************************************************************************)
(* Depth of the chain extraction.                                          *)
(***************************************************************************)
SetMax(S) == IF S = {} THEN 0 ELSE CHOOSE m \in S : \A x \in S : x <= m

\* the number of edges of the longest path of propagating error edges that
\* leaves node n and enters no node of visited and no node twice
RECURSIVE LongestFrom(_, _)
LongestFrom(n, visited) ==
    SetMax({1 + LongestFrom(cg.edges[i].to, visited \cup {cg.edges[i].to}) :
              i \in {j \in CgIdx : /\ ErrProp(cg.edges[j])
                                   /\ cg.edges[j].from = n
                                   /\ cg.edges[j].to \notin visited}})

\* the edges of the longest simple path that begins with the start edge
LongestPathFrom(start) == 1 + LongestFrom(start.to, {start.from, start.to})

\* C23: the max_depth of to_chains is the largest number of edges on a simple
\* path that begins with a start edge and continues along propagating error
\* edges, in whatever order the graph stores its edges.
C23_MaxDepthIsLongestPath ==
    (chain.run /\ ~chain.overflow) =>
        chain.max_depth = SetMax({LongestPathFrom(cg.edges[i]) : i \in StartIdx})

\* edges a -> b (start), b -> c, b -> d, d -> c in this order: the path
\* a b d c has three edges and to_chains reports 2
C23_ShorterReported ==
    /\ chain.run
    /\ Len(cg.edges) = 4 /\ Len(cg.nodes) = 4
    /\ ErrStart(cg.edges[1]) /\ \A i \in 2..4 : ErrProp(cg.edges[i])
    /\ cg.edges[1].from = 0 /\ cg.edges[1].to = 1
    /\ cg.edges[2].from = 1 /\ cg.edges[2].to = 2
    /\ cg.edges[3].from = 1 /\ cg.edges[3].to = 3
    /\ cg.edges[4].from = 3 /\ cg.edges[4].to = 2
    /\ LongestPathFrom(cg.edges[1]) = 3
    /\ chain.max_depth = 2

(***************************************************************************)
(* Nested Result types.                                                    *)
(***************************************************************************)
\* the return type is the Result type itself, or a future whose output is
ResultItself(decl) ==
    LET ty == Expand(decl)
    IN \/ ty.con = "Result"
       \/ ty.con = "Future" /\ ty.args[1].con = "Result"

\* C24: get_error_or_type gives is_error = true only for a return type that
\* is itself the Result type or a future of it; a type that merely holds a
\* Result among its arguments (an Option or a tuple of a Result) gets
\* is_error = false and its whole printed type as the label.
C24_OnlyResultItself ==
    classified.run =>
      /\ classified.is_error => ResultItself(ret_ty.decl)
      /\ ~ResultItself(ret_ty.decl) =>
           /\ ~classified.is_error
           /\ classified.label = Format(Expand(ret_ty.decl))

\* fn f() -> Option<Result<i32, ()>> is classified as an error with label ()
C24_OptionOfResultFlagged ==
    /\ classified.run
    /\ ret_ty.decl = Ty("Option", <<Ty("Result", <<Ty("i32", <<>>), UnitTy>>)>>)
    /\ classified.is_error
    /\ classified.label = <<"()">>

\* C25: in the finished graph every node other than the entry node is the
\* target of at least one edge.
C25_NodesAreCallTargets ==
    Finished =>
      \A i \in 2..Len(graph.nodes) : \E e \in Edges : e.to = graph.nodes[i].id

\* fn main() { let v = || { ext(); }; } analysed to the end: the closure has
\* a node and no edge leads to it
C25_OrphanNode ==
    /\ Finished
    /\ HasNodeFor("clos")
    /\ EdgesTo("clos") = {}

\* the edges of the longest acyclic path of propagating error edges
LongestAcyclic == SetMax({LongestFrom(n, {n}) : n \in 0..(Len(cg.nodes) - 1)})

\* C26: the nesting depth of get_chain_from_edge, for every start edge, is at
\* most one plus the number of edges of the longest acyclic path of
\* propagating error edges, and so at most the number of nodes.
C26_DepthBounded ==
    chain.run =>
      /\ ~chain.overflow
      /\ \A k \in ChainIdx :
           /\ chain.chains[k].depth <= 1 + LongestAcyclic
           /\ chain.chains[k].depth <= Len(cg.nodes)
      /\ chain.max_depth <= 1 + LongestAcyclic
      /\ chain.max_depth <= Len(cg.nodes)

\* to_chains has run on a graph whose propagating error edges form a cycle
\* reached from a start edge, down to the depth of the number of nodes
C26_Witness ==
    /\ chain.run
    /\ \E i \in CgIdx : ErrProp(cg.edges[i])
                        /\ cg.edges[i].from \in PropReach({cg.edges[i].to})
                        /\ \E s \in StartIdx : cg.edges[i].from \in PropReach({cg.edges[s].to})
    /\ chain.max_depth = Len(cg.nodes)
    /\ chain.max_depth = 1 + LongestAcyclic

(***************************************************************************)
(* The passes of analyze.                                                  *)
(***************************************************************************)
\* the graph the annotation has reached: the one at hand while it runs, the
\* one it left behind afterwards
AnnotationResult == IF pass.phase = "annotate" THEN graph ELSE pass.annotated

\* the edges the annotation has been at
AnnotationDone == IF pass.phase = "annotate" THEN pass.i ELSE Len(pass.built.edges)

\* C27: the annotation pass runs once create_call_graph_from_root has
\* returned the complete graph, is at every edge exactly once, and changes
\* only the edge's type label: nodes, number and order of edges and each
\* edge's from, to, call_id and propagates stay as built.
C27_AnnotationFrame ==
    (pass.run /\ pass.phase # "build") =>
      LET g == AnnotationResult
      IN /\ result = "Some" /\ stack = <<>>
         /\ g.nodes = pass.built.nodes
         /\ Len(g.edges) = Len(pass.built.edges)
         /\ \A j \in 1..Len(g.edges) :
              /\ g.edges[j].from = pass.built.edges[j].from
              /\ g.edges[j].to = pass.built.edges[j].to
              /\ g.edges[j].call_id = pass.built.edges[j].call_id
              /\ g.edges[j].propagates = pass.built.edges[j].propagates
              /\ pass.visits[j] = IF j <= AnnotationDone THEN 1 ELSE 0
              /\ j > AnnotationDone => g.edges[j] = pass.built.edges[j]

\* the annotation has ended on a graph of three edges and has found a type
\* for one call and none for another
C27_Witness ==
    /\ pass.run /\ pass.phase = "prune"
    /\ Len(pass.built.edges) = 3
    /\ \E j, k \in 1..3 : /\ pass.annotated.edges[j].ty = "None"
                          /\ pass.annotated.edges[k].ty # "None"
                          /\ pass.annotated.edges[k].propagates = FALSE

\* the edges the pruning is to keep
IsErrorCall(g, edge) ==
    \/ edge.ty # "None" /\ starts_with(edge.ty, "std::result::Result<")
    \/ g.nodes[edge.to + 1].panics

\* C28: after the pruning loop the edge list holds exactly the annotated
\* edges, in their order, whose ty is present and starts with
\* "std::result::Result<" or whose target node panics; the node list is
\* unchanged; and the loop never indexes outside the edge list at hand.
C28_PruningKeepsErrorCalls ==
    pass.run =>
      /\ pass.phase # "panic"
      /\ (pass.phase = "prune" /\ pass.i >= 0) => pass.i < Len(graph.edges)
      /\ pass.phase \in {"prune", "done"} => graph.nodes = pass.annotated.nodes
      /\ pass.phase = "done" =>
           graph.edges = SelectSeq(pass.annotated.edges,
                                   LAMBDA e : IsErrorCall(pass.annotated, e))

\* the pruning has ended: of three edges it kept the first and the last and
\* removed the one between them, whose type only holds a Result
C28_Witness ==
    /\ pass.run /\ pass.phase = "done"
    /\ Len(pass.annotated.edges) = 3
    /\ graph.edges = <<pass.annotated.edges[1], pass.annotated.edges[3]>>
    /\ pass.annotated.edges[2].ty = "std::option::Option<std::result::Result<i32, ()>>"

(***************************************************************************)
(* The arguments handed to the compiler.                                   *)
(***************************************************************************)
\* C29: the list split_args returns holds no argument that starts with
\* "--json=", and every argument of it that starts with "--error-format=" is
\* "--error-format=short", also for adjacent such arguments in the command.
C29_JsonArgsRemoved ==
    (cmd.run /\ cmd.args.run /\ ~cmd.args.panic) =>
      \A k \in 1..Len(cmd.args.res) :
        /\ ~starts_with(cmd.args.res[k], "--json=")
        /\ starts_with(cmd.args.res[k], "--error-format=")
             => cmd.args.res[k] = "--error-format=short"

\* rustc --json=artifacts --error-format=json: the argument after the
\* removed one is returned as it was
C29_FormatLeftAfterJson ==
    /\ cmd.run /\ cmd.args.run
    /\ cmd.command = "rustc --json=artifacts --error-format=json"
    /\ cmd.args.res = <<"rustc", "--error-format=json">>

\* rustc --json=artifacts --json=artifacts: the second one is returned
C29_SecondJsonLeft ==
    /\ cmd.run /\ cmd.args.run
    /\ cmd.command = "rustc --json=artifacts --json=artifacts"
    /\ cmd.args.res = <<"rustc", "--json=artifacts">>

\* rustc --error-format=json --json=artifacts, the order cargo prints: both
\* are dealt with
C29_CargoOrderHandled ==
    /\ cmd.run /\ cmd.args.run
    /\ cmd.command = "rustc --error-format=json --json=artifacts"
    /\ cmd.args.res = <<"rustc", "--error-format=short">>

====
